---- MODULE Spec2Model ----
(***************************************************************************)
(* The lantern hacking manager of roleHaven (managers/lanternHacking):     *)
(* hack sessions (lantern hacks) per owner, the signal value of stations,  *)
(* the signal update of a successful hack and the periodic reset of the    *)
(* stations towards the default signal value.                              *)
(*                                                                         *)
(* Every asynchronous callback of the source is one action.  A request is  *)
(* a record whose pc names the callback it is waiting for.                 *)
(***************************************************************************)
EXTENDS Integers, Sequences, FiniteSets, Bags, TLC

VARIABLES
  stations,     \* station store: stationId -> signalValue
  lanternHacks, \* session store: set of lantern hacks, at most one per owner
  reqs,         \* in-flight socket requests: request slot -> record
  resets,       \* resetStations calls waiting for getAllStations
  decayWrites,  \* bag of station writes issued by resetStations, not yet answered
  timers,       \* pending setTimeout(resetStations) timers
  answer,       \* the last call of a request's callback
  nStarted,     \* socket requests started so far
  nResets,      \* resetStations calls started so far
  posted,       \* the data of the last telemetry request sent by postRequest
  resetError,   \* the last error resetStations called its callback with
  roundCalls    \* what the last callback that stored a lantern round called, in order

vars == <<stations, lanternHacks, reqs, resets, decayWrites, timers, answer, nStarted, nResets,
          posted, resetError, roundCalls>>

----------------------------------------------------------------------------
(* Program constants *)

signalThreshold == 50
signalDefault == 100
\* changePercentage = 0.2, kept as its inverse so that the arithmetic stays integer
changePercentageInv == 5
signalMaxChange == 10
\* slice(0, 2) of the shuffled game users
GameUsersPerHack == 2
\* slice(0, 13) of the shuffled fake passwords
FakePasswordsShown == 13

(* Bounds of the model *)

\* appConfig.hackingTriesAmount: the tries a new lantern hack starts with, a
\* value of the configuration
hackingTriesAmount == 2
\* socket requests started in a run
MaxStarted == 2
\* resetStations calls started in a run (module load, timers, round ends)
MaxResets == 2

----------------------------------------------------------------------------
(* The data the stores are populated with *)

Owners == {"o1"}
BadToken == "badToken"
Tokens == Owners \cup {BadToken}

\* stations of the station store
StationIds == {1, 2}
\* station ids another module calls updateSignalValue with
UpdatedStationIds == {1}
\* station ids a client may ask for; 3 has no game users
RequestedStationIds == {1, 2, 3}
\* signal values the store can hold when the process starts: the default, the
\* two limits and the value repeated cuts end at
InitSignals == {50, 54, 100, 150}

\* game users (user name, passwords) of each station; a password is a
\* sequence of characters
GameUsersOf(stationId) ==
  CASE stationId = 1 -> << [userName |-> "u1", passwords |-> << <<"a", "b">>, <<"a", "a">> >>],
                           [userName |-> "u2", passwords |-> << <<"b">> >>] >>
    [] stationId = 2 -> << [userName |-> "u3", passwords |-> << <<"a", "b">> >>] >>
    [] OTHER -> << >>

FakePasswords == << <<"z">>, <<"y">> >>

\* passwords a client sends
Guesses == { <<"A", "B">>, <<"a", "a">> }

\* slots of the socket requests in flight
ReqIds == {1, 2}

----------------------------------------------------------------------------
(* Pure functions *)

Abs(x) == IF x < 0 THEN -x ELSE x

\* Math.ceil(n / d) and Math.floor(n / d) for d > 0
CeilDiv(n, d) == -((-n) \div d)

\* String.prototype.toLowerCase on one character
LowerChar(c) ==
  CASE c = "A" -> "a"
    [] c = "B" -> "b"
    [] OTHER -> c

\* password.toLowerCase()
ToLowerCase(password) == [i \in 1..Len(password) |-> LowerChar(password[i])]

\* indexOf: 0-based index of the first occurrence, -1 when absent
IndexOf(s, c) ==
  IF \E i \in 1..Len(s) : s[i] = c
    THEN (CHOOSE i \in 1..Len(s) : s[i] = c /\ \A j \in 1..(i - 1) : s[j] # c) - 1
    ELSE -1

\* the value written were every station lowered
DecayValueLowered(signalValue) == signalValue - 1

\* resetStations: the value written for a station whose signal value is not
\* the default
DecayValue(signalValue) ==
  IF signalValue > signalDefault THEN signalValue - 1 ELSE signalValue + 1

\* signalChange were signalMaxChange never used
SignalChangeProportional(signalValue, boostingSignal) ==
  signalThreshold - Abs(signalValue - signalDefault)

\* updateSignalValue: signalChange, in units of changePercentage (fifths)
SignalChange(signalValue, boostingSignal) ==
  LET difference == Abs(signalValue - signalDefault) IN
  IF boostingSignal /\ signalValue < signalDefault
    THEN signalMaxChange * changePercentageInv
    ELSE IF ~boostingSignal /\ signalValue > signalDefault
      THEN signalMaxChange * changePercentageInv
      ELSE signalThreshold - difference

\* the argument of setNewValue were the change added in both directions
ChangedSignalAdded(signalValue, boostingSignal) ==
  signalValue * changePercentageInv + SignalChange(signalValue, boostingSignal)

\* the argument of setNewValue were the change taken off in both directions
ChangedSignalTaken(signalValue, boostingSignal) ==
  signalValue * changePercentageInv - Abs(SignalChange(signalValue, boostingSignal))

\* updateSignalValue: the argument of setNewValue, in fifths
ChangedSignal(signalValue, boostingSignal) ==
  LET signalChange == SignalChange(signalValue, boostingSignal) IN
  signalValue * changePercentageInv
    + (IF boostingSignal THEN signalChange ELSE -Abs(signalChange))

\* setNewValue were the value rounded down
SetNewValueFloor(signalValue) ==
  LET minValue == signalDefault - signalThreshold
      maxValue == signalDefault + signalThreshold
      floorSignalValue == signalValue \div changePercentageInv IN
  IF floorSignalValue > maxValue THEN maxValue
  ELSE IF floorSignalValue < minValue THEN minValue
  ELSE floorSignalValue

\* setNewValue were only the lower limit tested
SetNewValueNoMax(signalValue) ==
  LET minValue == signalDefault - signalThreshold
      ceilSignalValue == CeilDiv(signalValue, changePercentageInv) IN
  IF ceilSignalValue < minValue THEN minValue ELSE ceilSignalValue

\* setNewValue: the value it writes for an argument given in fifths
SetNewValue(signalValue) ==
  LET minValue == signalDefault - signalThreshold
      maxValue == signalDefault + signalThreshold
      ceilSignalValue == CeilDiv(signalValue, changePercentageInv) IN
  IF ceilSignalValue > maxValue THEN maxValue
  ELSE IF ceilSignalValue < minValue THEN minValue
  ELSE ceilSignalValue

\* the value updateSignalValue writes for a station it read at signalValue
NewSignalValue(signalValue, boostingSignal) ==
  SetNewValue(ChangedSignal(signalValue, boostingSignal))

\* gameUsers.find(gameUser => gameUser.isCorrect)
CorrectUser(lanternHack) ==
  LET gameUsers == lanternHack.gameUsers IN
  gameUsers[CHOOSE i \in 1..Len(gameUsers) :
              gameUsers[i].isCorrect /\ \A j \in 1..(i - 1) : ~gameUsers[j].isCorrect]

\* the condition were the tries left not tested
IsCorrectGuessAnyTries(lanternHack, password) ==
  CorrectUser(lanternHack).password = ToLowerCase(password)

\* the condition were the password compared as it was sent
IsCorrectGuessAsSent(lanternHack, password) ==
  CorrectUser(lanternHack).password = password /\ lanternHack.triesLeft > 0

\* manipulateStation: the condition of the successful hack
IsCorrectGuess(lanternHack, password) ==
  CorrectUser(lanternHack).password = ToLowerCase(password) /\ lanternHack.triesLeft > 0

\* manipulateStation: matches.length of a failed guess
MatchesAmount(correctPassword, password) ==
  LET sentPassword == ToLowerCase(password) IN
  Cardinality({i \in 1..Len(sentPassword) :
                 IndexOf(correctPassword, sentPassword[i]) = IndexOf(sentPassword, sentPassword[i])})

\* String.fromCharCode(97 + passwordRand).toUpperCase()
PasswordTypes == <<"A", "B", "C">>

\* textTools.shuffleArray: every order of the array
Shuffles(array) ==
  {[i \in 1..Len(array) |-> array[p[i]]] :
     p \in {q \in [1..Len(array) -> 1..Len(array)] :
              \A i, j \in 1..Len(array) : q[i] = q[j] => i = j}}

Min(a, b) == IF a < b THEN a ELSE b

\* the array were not cut
SliceAll(array, n) == array

\* array.slice(0, n)
Slice(array, n) == SubSeq(array, 1, Min(n, Len(array)))

\* the game users were the hint the first character whatever the index
HackUsersOfFirstCharacter(gameUser) ==
  UNION {
    {[password |-> gameUser.passwords[passwordRand],
      passwordType |-> PasswordTypes[passwordRand],
      userName |-> gameUser.userName,
      passwordHint |-> [index |-> randomIndex - 1,
                        character |-> gameUser.passwords[passwordRand][1]],
      isCorrect |-> FALSE] :
       randomIndex \in 1..Len(gameUser.passwords[passwordRand])} :
    passwordRand \in 1..Len(gameUser.passwords)}

\* createLanternHack: what the map callback can return for one game user
HackUsersOf(gameUser) ==
  UNION {
    {[password |-> gameUser.passwords[passwordRand],
      passwordType |-> PasswordTypes[passwordRand],
      userName |-> gameUser.userName,
      passwordHint |-> [index |-> randomIndex - 1,
                        character |-> gameUser.passwords[passwordRand][randomIndex]],
      isCorrect |-> FALSE] :
       randomIndex \in 1..Len(gameUser.passwords[passwordRand])} :
    passwordRand \in 1..Len(gameUser.passwords)}

\* the gameUsers lists were the last game user set to the right combination
CreatedGameUsersLast(pool) ==
  UNION {
    {[i \in 1..Len(chosen) |-> [gameUsers[i] EXCEPT !.isCorrect = (i = Len(chosen))]] :
       gameUsers \in {g \in [1..Len(chosen) -> UNION {HackUsersOf(chosen[k]) : k \in 1..Len(chosen)}] :
                        \A i \in 1..Len(chosen) : g[i] \in HackUsersOf(chosen[i])}} :
    chosen \in {Slice(shuffled, GameUsersPerHack) : shuffled \in Shuffles(pool)}}

\* createLanternHack: the gameUsers lists it can store for a pool of game users
CreatedGameUsers(pool) ==
  UNION {
    {[i \in 1..Len(chosen) |-> [gameUsers[i] EXCEPT !.isCorrect = (i = 1)]] :
       gameUsers \in {g \in [1..Len(chosen) -> UNION {HackUsersOf(chosen[k]) : k \in 1..Len(chosen)}] :
                        \A i \in 1..Len(chosen) : g[i] \in HackUsersOf(chosen[i])}} :
    chosen \in {Slice(shuffled, GameUsersPerHack) : shuffled \in Shuffles(pool)}}

\* the fake passwords were all of them shown
ShownFakePasswordsAll(shuffled) == shuffled

\* createHackData: shuffleArray(...).slice(0, 13) of the fake passwords
ShownFakePasswords(shuffled) == Slice(shuffled, FakePasswordsShown)

\* createHackData: the passwords lists it can return
HackPasswords(lanternHack) ==
  {ShownFakePasswords(shuffled)
     \o [i \in 1..Len(lanternHack.gameUsers) |-> lanternHack.gameUsers[i].password] :
   shuffled \in Shuffles(FakePasswords)}

\* createHackData: the data it can return for a lantern hack
HackData(lanternHack) ==
  {[passwords |-> passwords,
    triesLeft |-> lanternHack.triesLeft,
    userName |-> CorrectUser(lanternHack).userName,
    passwordType |-> CorrectUser(lanternHack).passwordType,
    passwordHint |-> CorrectUser(lanternHack).passwordHint,
    stationId |-> lanternHack.stationId] :
   passwords \in HackPasswords(lanternHack)}


----------------------------------------------------------------------------
(* Results handed to a callback: {error} or {data} *)

InvalidData == [error |-> "invalid data"]
NotAllowed == [error |-> "not allowed"]
DoesNotExist == [error |-> "does not exist"]
Database == [error |-> "database"]
External == [error |-> "external"]

IsError(result) == "error" \in DOMAIN result

Idle == [pc |-> "idle", tele |-> "none"]
NoAnswer == [n |-> 0]

\* a request slot is free when its handler and its telemetry chain have ended
Free(req) == req.pc \in {"idle", "threw"}

\* the call of a request's callback with a result
Answered(req, result) == [op |-> req.op, n |-> req.cbs + 1, result |-> result]

\* the slot of a request whose handler has called its callback for the last
\* time: kept while the telemetry chain of the request is still running
Ended(req) ==
  IF req.tele \notin {"sent", "removeLanternHack"} THEN Idle
  ELSE IF req.op = "manipulateStation"
    THEN [op |-> req.op, token |-> req.token, boostingSignal |-> req.boostingSignal,
          pc |-> "done", cbs |-> req.cbs + 1, tele |-> req.tele,
          stationId |-> req.stationId]
    ELSE [op |-> req.op, pc |-> "done", cbs |-> req.cbs + 1, tele |-> req.tele,
          stationId |-> req.stationId, signalValue |-> req.signalValue,
          ceilSignalValue |-> req.ceilSignalValue]

\* the first free slot takes a new request
FirstFree(r) == Free(reqs[r]) /\ \A q \in ReqIds : q < r => ~Free(reqs[q])

\* postRequest: the data of a set_boost request
SetBoost(stationId, boost) == [station |-> stationId, boost |-> boost]
NoPost == [station |-> 0]

\* resetStations and the lantern rounds are not touched by the handlers
UnchangedResets == UNCHANGED <<resets, decayWrites, timers, nResets, resetError, roundCalls>>

UnchangedDecay == UnchangedResets /\ UNCHANGED posted

----------------------------------------------------------------------------
(* db/connectors/lanternhack: the session store *)

\* getLanternHack: the lantern hacks stored for an owner; none is answered
\* with the error DoesNotExist and no data
HacksOf(owner) == {h \in lanternHacks : h.owner = owner}

\* updateLanternHack: upsert by owner
DbUpdateLanternHack(lanternHack) ==
  (lanternHacks \ HacksOf(lanternHack.owner)) \cup {lanternHack}

\* removeLanternHack: delete by owner
DbRemoveLanternHack(owner) == lanternHacks \ HacksOf(owner)

\* lowerHackTries: triesLeft of the owner's lantern hack lowered by one
DbLowerHackTries(owner) ==
  {IF h.owner = owner THEN [h EXCEPT !.triesLeft = @ - 1] ELSE h : h \in lanternHacks}

\* lowerHackTries: the lantern hack it answers with
DbLoweredHack(owner) ==
  LET stored == CHOOSE h \in HacksOf(owner) : TRUE IN
  [stored EXCEPT !.triesLeft = @ - 1]

----------------------------------------------------------------------------
(* manipulateStation *)

\* the handler were to go on after the answer to invalid data
AbortedGoesOn(req) == req

\* manipulateStation, getLanternHack: the return after the answer to invalid
\* data ends the handler
Aborted(req) == Ended(req)

\* socket event manipulateStation: validation, then isUserAllowed
ManipulateStation(r, token, password, boostingSignal, valid) ==
  /\ FirstFree(r)
  /\ nStarted < MaxStarted
  /\ nStarted' = nStarted + 1
  /\ LET req == [op |-> "manipulateStation", token |-> token, password |-> password,
                 boostingSignal |-> boostingSignal, pc |-> "isUserAllowed",
                 cbs |-> 0, tele |-> "none"] IN
     IF valid
       THEN /\ reqs' = [reqs EXCEPT ![r] = req]
            /\ UNCHANGED answer
       ELSE /\ reqs' = [reqs EXCEPT ![r] = Aborted(req)]
            /\ answer' = Answered(req, InvalidData)
  /\ UNCHANGED <<stations, lanternHacks>>
  /\ UnchangedDecay

\* the owner were the first user whoever sent the request
UserNameFirst(req) == "o1"

\* user.userName: the user isUserAllowed answers for the token of the request,
\* the owner in every call of the session store
UserName(req) == req.token

\* callback of isUserAllowed, of manipulateStation and of getLanternHack
UserAllowed(r) ==
  /\ reqs[r].pc = "isUserAllowed"
  /\ LET req == reqs[r] IN
     IF req.token = BadToken
       THEN /\ reqs' = [reqs EXCEPT ![r] = Ended(req)]
            /\ answer' = Answered(req, NotAllowed)
       ELSE /\ reqs' = [reqs EXCEPT ![r].pc = "getLanternHack"]
            /\ UNCHANGED answer
  /\ UNCHANGED <<stations, lanternHacks, nStarted>>
  /\ UnchangedDecay

\* the answer were the one of a failed guess
GetErrorAsFailedGuess(getError) == [data |-> [success |-> FALSE, triesLeft |-> 0]]

\* manipulateStation: what the callback is called with when getLanternHack
\* has answered with an error
GetErrorResult(getError) == getError

\* the station were the first one whatever the lantern hack
HackedStationFirst(lanternHack) == 1

\* manipulateStation: the station handed to updateSignalValue
HackedStation(lanternHack) == lanternHack.stationId

\* callback of dbLanternHack.getLanternHack in manipulateStation
ManipulateGotHack(r, dbOk) ==
  /\ reqs[r].pc = "getLanternHack"
  /\ reqs[r].op = "manipulateStation"
  /\ LET req == reqs[r]
         found == HacksOf(UserName(req)) IN
     IF ~dbOk \/ found = {}
       THEN /\ reqs' = [reqs EXCEPT ![r] = Ended(req)]
            /\ answer' = Answered(req, GetErrorResult(IF dbOk THEN DoesNotExist ELSE Database))
       ELSE /\ LET lanternHack == CHOOSE h \in found : TRUE IN
               reqs' = [reqs EXCEPT ![r] =
                 IF IsCorrectGuess(lanternHack, req.password)
                   THEN [op |-> req.op, token |-> req.token, cbs |-> req.cbs, tele |-> req.tele,
                         boostingSignal |-> req.boostingSignal,
                         pc |-> "getStation", stationId |-> HackedStation(lanternHack)]
                   ELSE [op |-> req.op, token |-> req.token, cbs |-> req.cbs, tele |-> req.tele,
                         boostingSignal |-> req.boostingSignal, password |-> req.password,
                         pc |-> "lowerHackTries", correctUser |-> CorrectUser(lanternHack)]]
            /\ UNCHANGED answer
  /\ UNCHANGED <<stations, lanternHacks, nStarted>>
  /\ UnchangedDecay

\* exports.updateSignalValue called by another module
UpdateSignalValue(r, stationId, boostingSignal) ==
  /\ FirstFree(r)
  /\ nStarted < MaxStarted
  /\ nStarted' = nStarted + 1
  /\ reqs' = [reqs EXCEPT ![r] =
       [op |-> "updateSignalValue", stationId |-> stationId, boostingSignal |-> boostingSignal,
        pc |-> "getStation", cbs |-> 0, tele |-> "none"]]
  /\ UNCHANGED <<stations, lanternHacks, answer>>
  /\ UnchangedDecay

\* the error were updateError handed on as it is
UpdateErrorPassedOn(req) == Database

\* the error manipulateStation hands on when updateSignalValue fails
UpdateError(req) == IF req.op = "manipulateStation" THEN External ELSE Database

\* updateSignalValue: callback of dbLanternHack.getStation
GotStation(r, dbOk) ==
  /\ reqs[r].pc = "getStation"
  /\ LET req == reqs[r]
         signalValue == stations[req.stationId] IN
     IF ~dbOk
       THEN /\ reqs' = [reqs EXCEPT ![r] = Ended(req)]
            /\ answer' = Answered(req, UpdateError(req))
       ELSE /\ reqs' = [reqs EXCEPT ![r] =
                 [req EXCEPT !.pc = "updateSignalValue"]
                   @@ [signalValue |-> signalValue,
                       ceilSignalValue |-> NewSignalValue(signalValue, req.boostingSignal)]]
            /\ UNCHANGED answer
  /\ UNCHANGED <<stations, lanternHacks, nStarted>>
  /\ UnchangedDecay

\* the data were the value read sent as the boost
EnginePostRead(req) == SetBoost(req.stationId, req.signalValue)

\* setNewValue: the data of the telemetry request
EnginePost(req) == SetBoost(req.stationId, req.ceilSignalValue)

\* setNewValue: callback of dbLanternHack.updateSignalValue.  On success the
\* callback of updateSignalValue is called (in manipulateStation it calls
\* removeLanternHack) and the telemetry request is sent (answers: whether its
\* response ever ends)
UpdatedSignalValue(r, dbOk, answers) ==
  /\ reqs[r].pc = "updateSignalValue"
  /\ LET req == reqs[r]
         sent == [req EXCEPT !.tele = IF answers THEN "sent" ELSE "none"] IN
     IF ~dbOk
       THEN /\ reqs' = [reqs EXCEPT ![r] = Ended(req)]
            /\ answer' = Answered(req, UpdateError(req))
            /\ UNCHANGED <<stations, posted>>
       ELSE /\ stations' = [stations EXCEPT ![req.stationId] = req.ceilSignalValue]
            /\ posted' = EnginePost(req)
            /\ IF req.op = "manipulateStation"
                 THEN /\ reqs' = [reqs EXCEPT ![r] =
                           [op |-> req.op, token |-> req.token,
                            boostingSignal |-> req.boostingSignal,
                            pc |-> "removeLanternHack", cbs |-> req.cbs, tele |-> sent.tele,
                            stationId |-> req.stationId]]
                      /\ UNCHANGED answer
                 ELSE /\ reqs' = [reqs EXCEPT ![r] = Ended(sent)]
                      /\ answer' = Answered(req, [data |-> [success |-> TRUE]])
  /\ UNCHANGED <<lanternHacks, nStarted>>
  /\ UnchangedResets

\* callback of dbLanternHack.removeLanternHack after the signal update
RemovedHack(r, dbOk) ==
  /\ reqs[r].pc = "removeLanternHack"
  /\ LET req == reqs[r] IN
     /\ reqs' = [reqs EXCEPT ![r] = Ended(req)]
     /\ IF dbOk
          THEN /\ lanternHacks' = DbRemoveLanternHack(UserName(req))
               /\ answer' = Answered(req, [data |-> [success |-> TRUE,
                                                     boostingSignal |-> req.boostingSignal]])
          ELSE /\ UNCHANGED lanternHacks
               /\ answer' = Answered(req, Database)
  /\ UNCHANGED <<stations, nStarted>>
  /\ UnchangedDecay

\* the result were the response of the telemetry server handed on as an error
TelemetryResultError(response) == External

\* setNewValue: what the callback of postRequest calls back with
TelemetryResult(response) == [data |-> [response |-> response]]

\* postRequest: the response of the telemetry server ends and the callback of
\* updateSignalValue runs a second time; in manipulateStation it calls
\* removeLanternHack again
TelemetryAnswered(r) ==
  /\ reqs[r].tele = "sent"
  /\ LET req == reqs[r] IN
     IF req.op = "manipulateStation"
       THEN /\ reqs' = [reqs EXCEPT ![r].tele = "removeLanternHack"]
            /\ UNCHANGED answer
       ELSE /\ reqs' = [reqs EXCEPT ![r] = Idle]
            /\ answer' = Answered(req, TelemetryResult("statusCode"))
  /\ UNCHANGED <<stations, lanternHacks, nStarted>>
  /\ UnchangedDecay

\* callback of the removeLanternHack called from the telemetry callback
TelemetryRemovedHack(r, dbOk) ==
  /\ reqs[r].tele = "removeLanternHack"
  /\ LET req == reqs[r] IN
     /\ reqs' = [reqs EXCEPT ![r] =
          IF req.pc = "done" THEN Idle
          ELSE [req EXCEPT !.tele = "done", !.cbs = @ + 1]]
     /\ IF dbOk
          THEN /\ lanternHacks' = DbRemoveLanternHack(UserName(req))
               /\ answer' = Answered(req, [data |-> [success |-> TRUE,
                                                     boostingSignal |-> req.boostingSignal]])
          ELSE /\ UNCHANGED lanternHacks
               /\ answer' = Answered(req, Database)
  /\ UNCHANGED <<stations, nStarted>>
  /\ UnchangedDecay

\* callback of dbLanternHack.lowerHackTries
LoweredHackTries(r, dbOk) ==
  /\ reqs[r].pc = "lowerHackTries"
  /\ LET req == reqs[r]
         found == HacksOf(UserName(req)) IN
     IF ~dbOk \/ found = {}
       THEN /\ reqs' = [reqs EXCEPT ![r] = Ended(req)]
            /\ answer' = Answered(req, IF dbOk THEN DoesNotExist ELSE Database)
            /\ UNCHANGED lanternHacks
       ELSE /\ lanternHacks' = DbLowerHackTries(UserName(req))
            /\ LET loweredHack == DbLoweredHack(UserName(req)) IN
               IF loweredHack.triesLeft <= 0
                 THEN /\ reqs' = [reqs EXCEPT ![r] =
                           [op |-> req.op, token |-> req.token, cbs |-> req.cbs,
                            boostingSignal |-> req.boostingSignal,
                            pc |-> "removeLoweredHack", tele |-> req.tele,
                            triesLeft |-> loweredHack.triesLeft]]
                      /\ UNCHANGED answer
                 ELSE /\ reqs' = [reqs EXCEPT ![r] = Ended(req)]
                      /\ answer' = Answered(req, [data |-> [success |-> FALSE,
                           triesLeft |-> loweredHack.triesLeft,
                           matches |-> [amount |->
                             MatchesAmount(req.correctUser.password, req.password)]]])
  /\ UNCHANGED <<stations, nStarted>>
  /\ UnchangedDecay

\* callback of dbLanternHack.removeLanternHack after the last try
RemovedLoweredHack(r, dbOk) ==
  /\ reqs[r].pc = "removeLoweredHack"
  /\ LET req == reqs[r] IN
     /\ reqs' = [reqs EXCEPT ![r] = Ended(req)]
     /\ IF dbOk
          THEN /\ lanternHacks' = DbRemoveLanternHack(UserName(req))
               /\ answer' = Answered(req, [data |-> [success |-> FALSE,
                                                     triesLeft |-> req.triesLeft]])
          ELSE /\ UNCHANGED lanternHacks
               /\ answer' = Answered(req, Database)
  /\ UNCHANGED <<stations, nStarted>>
  /\ UnchangedDecay

----------------------------------------------------------------------------
(* getLanternHack *)

\* socket event getLanternHack: validation, then isUserAllowed
GetLanternHack(r, token, stationId, valid) ==
  /\ FirstFree(r)
  /\ nStarted < MaxStarted
  /\ nStarted' = nStarted + 1
  /\ LET req == [op |-> "getLanternHack", token |-> token, stationId |-> stationId,
                 pc |-> "isUserAllowed", cbs |-> 0, tele |-> "none"] IN
     IF valid
       THEN /\ reqs' = [reqs EXCEPT ![r] = req]
            /\ UNCHANGED answer
       ELSE /\ reqs' = [reqs EXCEPT ![r] = Aborted(req)]
            /\ answer' = Answered(req, InvalidData)
  /\ UNCHANGED <<stations, lanternHacks>>
  /\ UnchangedDecay

\* the test were every stored lantern hack taken for one of the station
IsOtherStationNever(lanternHack, stationId) == FALSE

\* the test were every stored lantern hack taken for one of another station
IsOtherStationAlways(lanternHack, stationId) == TRUE

\* getLanternHack: is the stored lantern hack one of another station than the
\* requested one
IsOtherStation(lanternHack, stationId) == lanternHack.stationId # stationId

\* callback of dbLanternHack.getLanternHack in getLanternHack.  Without a
\* stored lantern hack the DoesNotExist error is let through and the read of
\* lanternHackData.lanternHack throws: the handler ends without an answer
GetHackGotHack(r, dbOk) ==
  /\ reqs[r].pc = "getLanternHack"
  /\ reqs[r].op = "getLanternHack"
  /\ LET req == reqs[r]
         found == HacksOf(UserName(req)) IN
     IF ~dbOk
       THEN /\ reqs' = [reqs EXCEPT ![r] = Ended(req)]
            /\ answer' = Answered(req, Database)
       ELSE /\ reqs' = [reqs EXCEPT ![r] =
                 IF found = {} THEN [req EXCEPT !.pc = "threw"]
                 ELSE LET lanternHack == CHOOSE h \in found : TRUE IN
                      IF IsOtherStation(lanternHack, req.stationId)
                        THEN [req EXCEPT !.pc = "getGameUsers"]
                        ELSE [req EXCEPT !.pc = "getAllFakePasswords"]
                               @@ [lanternHack |-> lanternHack]]
            /\ UNCHANGED answer
  /\ UNCHANGED <<stations, lanternHacks, nStarted>>
  /\ UnchangedDecay

\* createLanternHack: callback of dbLanternHack.getGameUsers
GotGameUsers(r, dbOk) ==
  /\ reqs[r].pc = "getGameUsers"
  /\ LET req == reqs[r]
         pool == GameUsersOf(req.stationId) IN
     IF ~dbOk \/ Len(pool) < 1
       THEN /\ reqs' = [reqs EXCEPT ![r] = Ended(req)]
            /\ answer' = Answered(req, IF dbOk THEN DoesNotExist ELSE Database)
       ELSE /\ \E gameUsers \in CreatedGameUsers(pool) :
                 reqs' = [reqs EXCEPT ![r] =
                   [req EXCEPT !.pc = "updateLanternHack"] @@ [gameUsers |-> gameUsers]]
            /\ UNCHANGED answer
  /\ UNCHANGED <<stations, lanternHacks, nStarted>>
  /\ UnchangedDecay

\* createLanternHack: the lantern hack handed to dbLanternHack.updateLanternHack
\* by getLanternHack
NewLanternHack(owner, stationId, gameUsers) ==
  [owner |-> owner, stationId |-> stationId, gameUsers |-> gameUsers,
   triesLeft |-> hackingTriesAmount]

\* createLanternHack: callback of dbLanternHack.updateLanternHack
UpdatedLanternHack(r, dbOk) ==
  /\ reqs[r].pc = "updateLanternHack"
  /\ LET req == reqs[r]
         lanternHack == NewLanternHack(UserName(req), req.stationId, req.gameUsers) IN
     IF ~dbOk
       THEN /\ reqs' = [reqs EXCEPT ![r] = Ended(req)]
            /\ answer' = Answered(req, Database)
            /\ UNCHANGED lanternHacks
       ELSE /\ lanternHacks' = DbUpdateLanternHack(lanternHack)
            /\ reqs' = [reqs EXCEPT ![r] =
                 [op |-> req.op, token |-> req.token, stationId |-> req.stationId,
                  pc |-> "getAllFakePasswords", cbs |-> req.cbs, tele |-> req.tele,
                  lanternHack |-> lanternHack]]
            /\ UNCHANGED answer
  /\ UNCHANGED <<stations, nStarted>>
  /\ UnchangedDecay

\* createHackData: callback of dbLanternHack.getAllFakePasswords
GotFakePasswords(r, dbOk) ==
  /\ reqs[r].pc = "getAllFakePasswords"
  /\ LET req == reqs[r] IN
     /\ reqs' = [reqs EXCEPT ![r] = Ended(req)]
     /\ IF dbOk
          THEN \E hackData \in HackData(req.lanternHack) :
                 answer' = Answered(req, [data |-> hackData])
          ELSE answer' = Answered(req, Database)
  /\ UNCHANGED <<stations, lanternHacks, nStarted>>
  /\ UnchangedDecay

----------------------------------------------------------------------------
(* resetStations *)

\* the store were emptied by the steps of resetStations
UnchangedHacksButStore ==
  /\ lanternHacks' = {}
  /\ UNCHANGED <<reqs, answer, nStarted, roundCalls>>

\* the lantern hacks and the requests are not touched by resetStations
UnchangedHacks == UNCHANGED <<lanternHacks, reqs, answer, nStarted, roundCalls>>

\* a setTimeout(resetStations) timer fires
TimerFired ==
  /\ timers > 0
  /\ nResets < MaxResets
  /\ timers' = timers - 1
  /\ resets' = resets + 1
  /\ nResets' = nResets + 1
  /\ UNCHANGED <<stations, decayWrites, posted, resetError>>
  /\ UnchangedHacks

\* a setTimeout(resetStations) timer fires, in the runs that do not bound the
\* resetStations calls
TimerFiredAgain ==
  /\ timers > 0
  /\ timers' = timers - 1
  /\ resets' = resets + 1
  /\ UNCHANGED <<stations, decayWrites, nResets, posted, resetError>>
  /\ UnchangedHacks

\* endLanternRound / updateLanternRound: the round update is stored, the
\* caller is answered and resetStations is called
RoundEnded ==
  /\ nResets < MaxResets
  /\ resets' = resets + 1
  /\ nResets' = nResets + 1
  /\ UNCHANGED <<stations, decayWrites, timers, posted, resetError>>
  /\ UnchangedHacks

\* resetStations: the writes issued for the stations read
ResetWrites(read) ==
  {[stationId |-> stationId, signalValue |-> DecayValue(read[stationId])] :
     stationId \in {id \in DOMAIN read : read[id] # signalDefault}}

\* resetStations: callback of dbLanternHack.getAllStations
GotAllStations(dbOk) ==
  /\ resets > 0
  /\ resets' = resets - 1
  /\ decayWrites' = IF dbOk THEN decayWrites (+) SetToBag(ResetWrites(stations))
                    ELSE decayWrites
  /\ resetError' = IF dbOk THEN resetError ELSE Database
  /\ UNCHANGED <<stations, timers, nResets, posted>>
  /\ UnchangedHacks

\* the callback were the value written only to a station that still has the
\* value resetStations read
ResetUpdatedSignalValueIfUnchanged(write, dbOk) ==
  /\ BagIn(write, decayWrites)
  /\ decayWrites' = decayWrites (-) SetToBag({write})
  /\ IF dbOk
       THEN /\ stations' = IF DecayValue(stations[write.stationId]) = write.signalValue
                             THEN [stations EXCEPT ![write.stationId] = write.signalValue]
                             ELSE stations
            /\ posted' = SetBoost(write.stationId, write.signalValue)
            /\ timers' = timers + 1
            /\ UNCHANGED resetError
       ELSE /\ resetError' = Database
            /\ UNCHANGED <<stations, timers, posted>>
  /\ UNCHANGED <<resets, nResets>>
  /\ UnchangedHacks

\* resetStations: callback of dbLanternHack.updateSignalValue for one station;
\* on success the telemetry request is sent and resetStations is scheduled
ResetUpdatedSignalValue(write, dbOk) ==
  /\ BagIn(write, decayWrites)
  /\ decayWrites' = decayWrites (-) SetToBag({write})
  /\ IF dbOk
       THEN /\ stations' = [stations EXCEPT ![write.stationId] = write.signalValue]
            /\ posted' = SetBoost(write.stationId, write.signalValue)
            /\ timers' = timers + 1
            /\ UNCHANGED resetError
       ELSE /\ resetError' = Database
            /\ UNCHANGED <<stations, timers, posted>>
  /\ UNCHANGED <<resets, nResets>>
  /\ UnchangedHacks

----------------------------------------------------------------------------
(* managers/lanternHacking rounds: endLanternRound and updateLanternRound *)

\* values of the parameter isActive of updateLanternRound
RoundActivity == {"true", "false", "undefined"}

\* the test were one of isActive === true
NotActiveNever(isActive) == FALSE

\* updateLanternRound: !isActive
NotActive(isActive) == isActive # "true"

\* what the callback of the stored round calls: the callback of the request,
\* then resetStations when the round is not active
RoundCalls(resetting) ==
  IF resetting THEN <<"callback", "resetStations">> ELSE <<"callback">>

\* the data of a stored lantern round
RoundData == [data |-> [round |-> "lanternRound"]]

\* socket event endLanternRound: isUserAllowed
EndLanternRound(r, token) ==
  /\ FirstFree(r)
  /\ nStarted < MaxStarted
  /\ nStarted' = nStarted + 1
  /\ reqs' = [reqs EXCEPT ![r] =
       [op |-> "endLanternRound", token |-> token, pc |-> "isUserAllowedRound",
        cbs |-> 0, tele |-> "none"]]
  /\ UNCHANGED <<stations, lanternHacks, answer>>
  /\ UnchangedDecay

\* socket event updateLanternRound: isUserAllowed
UpdateLanternRound(r, token, isActive) ==
  /\ FirstFree(r)
  /\ nStarted < MaxStarted
  /\ nStarted' = nStarted + 1
  /\ reqs' = [reqs EXCEPT ![r] =
       [op |-> "updateLanternRound", token |-> token, isActive |-> isActive,
        pc |-> "isUserAllowedRound", cbs |-> 0, tele |-> "none"]]
  /\ UNCHANGED <<stations, lanternHacks, answer>>
  /\ UnchangedDecay

\* callback of isUserAllowed, of endLanternRound and of updateLanternRound
RoundUserAllowed(r) ==
  /\ reqs[r].pc = "isUserAllowedRound"
  /\ LET req == reqs[r] IN
     IF req.token = BadToken
       THEN /\ reqs' = [reqs EXCEPT ![r] = Ended(req)]
            /\ answer' = Answered(req, NotAllowed)
       ELSE /\ reqs' = [reqs EXCEPT ![r].pc =
                 IF req.op = "endLanternRound" THEN "endLanternRound" ELSE "getLanternRound"]
            /\ UNCHANGED answer
  /\ UNCHANGED <<stations, lanternHacks, nStarted>>
  /\ UnchangedDecay

\* endLanternRound: callback of dbLanternHack.endLanternRound.  The stored
\* round is answered, then resetStations is called
EndedLanternRound(r, dbOk) ==
  /\ reqs[r].pc = "endLanternRound"
  /\ LET req == reqs[r] IN
     /\ reqs' = [reqs EXCEPT ![r] = Ended(req)]
     /\ IF dbOk
          THEN /\ answer' = Answered(req, RoundData)
               /\ roundCalls' = RoundCalls(TRUE)
               /\ resets' = resets + 1
               /\ nResets' = nResets + 1
          ELSE /\ answer' = Answered(req, Database)
               /\ UNCHANGED <<roundCalls, resets, nResets>>
  /\ UNCHANGED <<stations, lanternHacks, nStarted, decayWrites, timers, posted, resetError>>

\* updateLanternRound: callback of dbLanternHack.getLanternRound
GotLanternRound(r, dbOk) ==
  /\ reqs[r].pc = "getLanternRound"
  /\ LET req == reqs[r] IN
     IF dbOk
       THEN /\ reqs' = [reqs EXCEPT ![r].pc = "updateLanternRound"]
            /\ UNCHANGED answer
       ELSE /\ reqs' = [reqs EXCEPT ![r] = Ended(req)]
            /\ answer' = Answered(req, Database)
  /\ UNCHANGED <<stations, lanternHacks, nStarted>>
  /\ UnchangedDecay

\* updateLanternRound: callback of dbLanternHack.updateLanternRound.  The
\* stored round is answered, then resetStations is called if the round is not
\* active
UpdatedLanternRound(r, dbOk) ==
  /\ reqs[r].pc = "updateLanternRound"
  /\ LET req == reqs[r] IN
     /\ reqs' = [reqs EXCEPT ![r] = Ended(req)]
     /\ IF dbOk
          THEN /\ answer' = Answered(req, RoundData)
               /\ roundCalls' = RoundCalls(NotActive(req.isActive))
               /\ IF NotActive(req.isActive)
                    THEN /\ resets' = resets + 1
                         /\ nResets' = nResets + 1
                    ELSE UNCHANGED <<resets, nResets>>
          ELSE /\ answer' = Answered(req, Database)
               /\ UNCHANGED <<roundCalls, resets, nResets>>
  /\ UNCHANGED <<stations, lanternHacks, nStarted, decayWrites, timers, posted, resetError>>

----------------------------------------------------------------------------
(* The state machine *)

\* the lantern hacks the store can hold for an owner: what createLanternHack
\* stored, with the tries left that failed guesses lower it to
StoredHacksOf(owner) ==
  {[NewLanternHack(owner, stationId, gameUsers) EXCEPT !.triesLeft = triesLeft] :
     <<stationId, gameUsers, triesLeft>> \in
       UNION {{<<id, g, t>> : g \in CreatedGameUsers(GameUsersOf(id)), t \in 0..hackingTriesAmount} :
              id \in StationIds}}

\* the owners that have a lantern hack in the store when the process starts
InitOwners == {"o1"}

\* the lantern hacks the process can find stored for an owner (those with the
\* first password and the hint at index 0)
InitHacksOf(owner) ==
  {h \in StoredHacksOf(owner) : \A i \in 1..Len(h.gameUsers) :
     h.gameUsers[i].passwordHint.index = 0 /\ h.gameUsers[i].passwordType = "A"}

\* the session stores the process can find: of each owner no lantern hack or one
InitHacks ==
  {UNION {stored[o] : o \in InitOwners} :
     stored \in [InitOwners -> {{}} \cup {{h} : h \in UNION {InitHacksOf(o) : o \in InitOwners}}]}

\* the stores as the process finds them, and the resetStations({}) call of the
\* module load
Init ==
  /\ stations \in {s \in [StationIds -> InitSignals] : s[2] = signalDefault}
  /\ lanternHacks \in InitHacks
  /\ reqs = [r \in ReqIds |-> Idle]
  /\ resets = 1
  /\ decayWrites = EmptyBag
  /\ timers = 0
  /\ answer = NoAnswer
  /\ nStarted = 0
  /\ nResets = 1
  /\ posted = NoPost
  /\ resetError = NoAnswer
  /\ roundCalls = << >>

\* the steps of manipulateStation
NextManipulate ==
  \/ \E r \in ReqIds, token \in Tokens, password \in Guesses, boostingSignal, valid \in BOOLEAN :
       ManipulateStation(r, token, password, boostingSignal, valid)
  \/ \E r \in ReqIds : UserAllowed(r)
  \/ \E r \in ReqIds, dbOk \in BOOLEAN : ManipulateGotHack(r, dbOk)
  \/ \E r \in ReqIds, dbOk \in BOOLEAN : GotStation(r, dbOk)
  \/ \E r \in ReqIds, dbOk, answers \in BOOLEAN : UpdatedSignalValue(r, dbOk, answers)
  \/ \E r \in ReqIds, dbOk \in BOOLEAN : RemovedHack(r, dbOk)
  \/ \E r \in ReqIds : TelemetryAnswered(r)
  \/ \E r \in ReqIds, dbOk \in BOOLEAN : TelemetryRemovedHack(r, dbOk)
  \/ \E r \in ReqIds, dbOk \in BOOLEAN : LoweredHackTries(r, dbOk)
  \/ \E r \in ReqIds, dbOk \in BOOLEAN : RemovedLoweredHack(r, dbOk)

\* the steps of getLanternHack
NextGetHack ==
  \/ \E r \in ReqIds, token \in Tokens, stationId \in RequestedStationIds, valid \in BOOLEAN :
       GetLanternHack(r, token, stationId, valid)
  \/ \E r \in ReqIds, dbOk \in BOOLEAN : GetHackGotHack(r, dbOk)
  \/ \E r \in ReqIds, dbOk \in BOOLEAN : GotGameUsers(r, dbOk)
  \/ \E r \in ReqIds, dbOk \in BOOLEAN : UpdatedLanternHack(r, dbOk)
  \/ \E r \in ReqIds, dbOk \in BOOLEAN : GotFakePasswords(r, dbOk)

\* the steps of updateSignalValue called by another module
NextUpdate ==
  \/ \E r \in ReqIds, stationId \in UpdatedStationIds, boostingSignal \in BOOLEAN :
       UpdateSignalValue(r, stationId, boostingSignal)
  \/ \E r \in ReqIds, dbOk \in BOOLEAN : GotStation(r, dbOk)
  \/ \E r \in ReqIds, dbOk, answers \in BOOLEAN : UpdatedSignalValue(r, dbOk, answers)
  \/ \E r \in ReqIds : TelemetryAnswered(r)

\* the steps of the socket requests
NextHack == NextManipulate \/ NextGetHack

\* the steps of resetStations
NextReset ==
  \/ TimerFired
  \/ RoundEnded
  \/ \E dbOk \in BOOLEAN : GotAllStations(dbOk)
  \/ \E write \in BagToSet(decayWrites), dbOk \in BOOLEAN : ResetUpdatedSignalValue(write, dbOk)

Next == NextHack \/ NextUpdate \/ NextReset

Spec == Init /\ [][Next]_vars

\* the socket requests alone, once the resetStations of the module load has
\* ended without a write (nothing read, or every station at the default)
InitHack ==
  /\ stations = [id \in StationIds |->
                   IF id = 1 THEN signalDefault + signalThreshold ELSE signalDefault]
  /\ lanternHacks \in InitHacks
  /\ reqs = [r \in ReqIds |-> Idle]
  /\ resets = 0
  /\ decayWrites = EmptyBag
  /\ timers = 0
  /\ answer = NoAnswer
  /\ nStarted = 0
  /\ nResets = 1
  /\ posted = NoPost
  /\ resetError = NoAnswer
  /\ roundCalls = << >>

SpecHack == InitHack /\ [][NextHack]_vars

\* the socket requests of two users, each with a lantern hack in the store
\* when the process starts
TwoOwners == {"o1", "o2"}

\* o1 has a lantern hack for station 1 and o2 one for station 2, each with one
\* try left
InitOwnersHacks ==
  {{h1, h2} : <<h1, h2>> \in
     {hs \in InitHacksOf("o1") \X InitHacksOf("o2") :
        /\ hs[1].triesLeft = 1 /\ hs[1].stationId = 1
        /\ hs[2].triesLeft = 1 /\ hs[2].stationId = 2}}

InitOwners2 ==
  /\ stations = [id \in StationIds |->
                   IF id = 1 THEN signalDefault + signalThreshold ELSE signalDefault]
  /\ lanternHacks \in InitOwnersHacks
  /\ reqs = [r \in ReqIds |-> Idle]
  /\ resets = 0
  /\ decayWrites = EmptyBag
  /\ timers = 0
  /\ answer = NoAnswer
  /\ nStarted = 0
  /\ nResets = 1
  /\ posted = NoPost
  /\ resetError = NoAnswer
  /\ roundCalls = << >>

\* the requests of the two users: valid requests that cut the signal, with a
\* password that is the correct one of u1 and u3 and not of u2, and a session
\* store that answers without an error
NextOwners ==
  \/ \E r \in ReqIds, token \in TwoOwners :
       ManipulateStation(r, token, <<"A", "B">>, FALSE, TRUE)
  \/ \E r \in ReqIds, token \in TwoOwners, stationId \in StationIds :
       GetLanternHack(r, token, stationId, TRUE)
  \/ \E r \in ReqIds : UserAllowed(r)
  \/ \E r \in ReqIds : ManipulateGotHack(r, TRUE)
  \/ \E r \in ReqIds : GotStation(r, TRUE)
  \/ \E r \in ReqIds, answers \in BOOLEAN : UpdatedSignalValue(r, TRUE, answers)
  \/ \E r \in ReqIds : RemovedHack(r, TRUE)
  \/ \E r \in ReqIds : TelemetryAnswered(r)
  \/ \E r \in ReqIds : TelemetryRemovedHack(r, TRUE)
  \/ \E r \in ReqIds : LoweredHackTries(r, TRUE)
  \/ \E r \in ReqIds : RemovedLoweredHack(r, TRUE)
  \/ \E r \in ReqIds : GetHackGotHack(r, TRUE)
  \/ \E r \in ReqIds : GotGameUsers(r, TRUE)
  \/ \E r \in ReqIds : UpdatedLanternHack(r, TRUE)
  \/ \E r \in ReqIds : GotFakePasswords(r, TRUE)

SpecOwners == InitOwners2 /\ [][NextOwners]_vars

\* the writers of the signal values alone: updateSignalValue and resetStations
InitSignal ==
  /\ stations \in {s \in [StationIds -> InitSignals] : s[2] = signalDefault}
  /\ lanternHacks = {}
  /\ reqs = [r \in ReqIds |-> Idle]
  /\ resets = 1
  /\ decayWrites = EmptyBag
  /\ timers = 0
  /\ answer = NoAnswer
  /\ nStarted = 0
  /\ nResets = 1
  /\ posted = NoPost
  /\ resetError = NoAnswer
  /\ roundCalls = << >>

NextSignal == NextUpdate \/ NextReset

SpecSignal == InitSignal /\ [][NextSignal]_vars

\* resetStations alone, from the module load on, with the timers it sets:
\* no socket request and no round end
InitDecay ==
  /\ stations \in [StationIds -> InitSignals]
  /\ lanternHacks = {}
  /\ reqs = [r \in ReqIds |-> Idle]
  /\ resets = 1
  /\ decayWrites = EmptyBag
  /\ timers = 0
  /\ answer = NoAnswer
  /\ nStarted = 0
  /\ nResets = 1
  /\ posted = NoPost
  /\ resetError = NoAnswer
  /\ roundCalls = << >>

NextDecay ==
  \/ TimerFired
  \/ \E dbOk \in BOOLEAN : GotAllStations(dbOk)
  \/ \E write \in BagToSet(decayWrites), dbOk \in BOOLEAN : ResetUpdatedSignalValue(write, dbOk)

SpecDecay == InitDecay /\ [][NextDecay]_vars

\* the steps of resetStations and of its timers with a store that answers
\* every call; the timers fire however often they are set
NextTick ==
  \/ TimerFiredAgain
  \/ GotAllStations(TRUE)
  \/ \E write \in BagToSet(decayWrites) : ResetUpdatedSignalValue(write, TRUE)

\* the steps of updateSignalValue with a store that answers every call and a
\* telemetry server whose response never ends
NextBoost ==
  \/ \E r \in ReqIds, stationId \in UpdatedStationIds, boostingSignal \in BOOLEAN :
       UpdateSignalValue(r, stationId, boostingSignal)
  \/ \E r \in ReqIds : GotStation(r, TRUE)
  \/ \E r \in ReqIds : UpdatedSignalValue(r, TRUE, FALSE)

\* the module load with the stations at the default or one hack away from it
InitHeal ==
  /\ stations \in {s \in [StationIds -> {signalDefault, signalDefault + signalMaxChange}] :
                     s[2] = signalDefault}
  /\ lanternHacks = {}
  /\ reqs = [r \in ReqIds |-> Idle]
  /\ resets = 1
  /\ decayWrites = EmptyBag
  /\ timers = 0
  /\ answer = NoAnswer
  /\ nStarted = 0
  /\ nResets = 1
  /\ posted = NoPost
  /\ resetError = NoAnswer
  /\ roundCalls = << >>

NextHeal == NextBoost \/ NextTick

\* updateSignalValue and resetStations while everything answers.  Node runs
\* every callback that is due and fires every timer that is set; nothing makes
\* another module call updateSignalValue
SpecHeal == InitHeal /\ [][NextHeal]_vars /\ WF_vars(NextTick)

\* the lantern rounds and resetStations alone, with lantern hacks in the
\* store: the rounds are ended and updated while the stations are reset
InitRound ==
  /\ stations = [id \in StationIds |->
                   IF id = 1 THEN signalDefault + signalThreshold ELSE signalDefault]
  /\ lanternHacks \in InitHacks
  /\ reqs = [r \in ReqIds |-> Idle]
  /\ resets = 1
  /\ decayWrites = EmptyBag
  /\ timers = 0
  /\ answer = NoAnswer
  /\ nStarted = 0
  /\ nResets = 1
  /\ posted = NoPost
  /\ resetError = NoAnswer
  /\ roundCalls = << >>

\* the steps of endLanternRound and updateLanternRound
NextRoundUpdate ==
  \/ \E r \in ReqIds, token \in Tokens : EndLanternRound(r, token)
  \/ \E r \in ReqIds, token \in Tokens, isActive \in RoundActivity :
       UpdateLanternRound(r, token, isActive)
  \/ \E r \in ReqIds : RoundUserAllowed(r)
  \/ \E r \in ReqIds, dbOk \in BOOLEAN : EndedLanternRound(r, dbOk)
  \/ \E r \in ReqIds, dbOk \in BOOLEAN : GotLanternRound(r, dbOk)
  \/ \E r \in ReqIds, dbOk \in BOOLEAN : UpdatedLanternRound(r, dbOk)

NextRound == NextRoundUpdate \/ NextDecay

SpecRound == InitRound /\ [][NextRound]_vars

----------------------------------------------------------------------------
(* Vocabulary of the properties *)

MinSignal == signalDefault - signalThreshold
MaxSignal == signalDefault + signalThreshold
InRange(signalValue) == MinSignal <= signalValue /\ signalValue <= MaxSignal

\* signal values a read of the station store is tried with, also out of range
ReadSignals == 0..(2 * signalDefault)

\* the step is a step of the handler of the request in slot r: one of its
\* callbacks runs (every one of them moves pc)
Stepped(r) == reqs'[r].pc # reqs[r].pc

\* the step is one of the request in slot r, of its handler or of the callback
\* of its telemetry request
Acted(r) == reqs'[r] # reqs[r]

\* slot r holds a request of the operation, waiting for one of the callbacks
At(r, op, pcs) == reqs[r].pc \in pcs /\ reqs[r].op = op

\* the step ends the handler of the request in slot r with this result
EndsWith(r, result) == reqs'[r] = Ended(reqs[r]) /\ answer' = Answered(reqs[r], result)

\* the lantern hack stored for an owner that has one
HackOf(owner) == CHOOSE h \in HacksOf(owner) : TRUE

\* the answer a callback got tells of a successful hack
IsSuccess(a) ==
  /\ a.n > 0
  /\ ~IsError(a.result)
  /\ "success" \in DOMAIN a.result.data
  /\ a.result.data.success

Success(boostingSignal) == [data |-> [success |-> TRUE, boostingSignal |-> boostingSignal]]

\* positions at which the sent password and the correct one agree
PositionalMatches(correctPassword, sentPassword) ==
  Cardinality({i \in 1..Len(sentPassword) :
                 i <= Len(correctPassword) /\ sentPassword[i] = correctPassword[i]})

\* updateSignalValue writes a value in the range whatever value it read
WrittenInRange ==
  \A signalValue \in ReadSignals, boostingSignal \in BOOLEAN :
    InRange(NewSignalValue(signalValue, boostingSignal))

----------------------------------------------------------------------------
\* exactly the first game user of a list is the correct one
OneCorrectFirst(gameUsers) ==
  /\ Len(gameUsers) >= 1
  /\ gameUsers[1].isCorrect
  /\ \A i \in 2..Len(gameUsers) : ~gameUsers[i].isCorrect

\* createLanternHack marks exactly the first game user, whatever the station
\* (it makes no lantern hack for a station without game users)
CreatedOneCorrect ==
  \A stationId \in RequestedStationIds :
    Len(GameUsersOf(stationId)) >= 1
      => \A gameUsers \in CreatedGameUsers(GameUsersOf(stationId)) : OneCorrectFirst(gameUsers)

(* C11: every stored lantern hack has exactly one game user with isCorrect, the
   first of its list, as createLanternHack makes it for every station; and
   only updateLanternHack of a getLanternHack for another station stores other
   game users for an owner: a failed guess and a getLanternHack for the same
   station leave the game users, and with them the correct one, as they are. *)
C11_OneCorrectUser ==
  [][/\ CreatedOneCorrect
     /\ \A h \in lanternHacks \cup lanternHacks' : OneCorrectFirst(h.gameUsers)
     /\ \A r \in ReqIds :
          ( /\ Acted(r)
            /\ ~At(r, "getLanternHack", {"updateLanternHack"}) )
          => \A kept \in lanternHacks' :
               \E h \in lanternHacks :
                 /\ h.owner = kept.owner
                 /\ h.stationId = kept.stationId
                 /\ h.gameUsers = kept.gameUsers]_vars

\* a lantern hack with two game users has taken a failed guess and is stored
\* with the first game user correct and the second not
C11_Witness ==
  /\ answer.n > 0
  /\ answer.op = "manipulateStation"
  /\ ~IsError(answer.result)
  /\ ~answer.result.data.success
  /\ \E h \in lanternHacks :
       /\ Len(h.gameUsers) = 2
       /\ h.triesLeft = answer.result.data.triesLeft
       /\ h.gameUsers[1].isCorrect
       /\ ~h.gameUsers[2].isCorrect

(* C12 (as claimed): every stored lantern hack has triesLeft >= 0 in every
   reachable state, also while several manipulateStation of one owner are in
   flight. *)
C12_TriesNotNegative ==
  \A h \in lanternHacks : h.triesLeft >= 0

\* the value the engine is said to store for a station read at signalValue:
\* the step is signalMaxChange towards the default and otherwise
\* (signalThreshold - |signalValue - signalDefault|) * changePercentage
ClaimedSignal(signalValue, boostingSignal) ==
  LET step == IF \/ boostingSignal /\ signalValue < signalDefault
                 \/ ~boostingSignal /\ signalValue > signalDefault
                THEN signalMaxChange * changePercentageInv
                ELSE signalThreshold - Abs(signalValue - signalDefault)
      moved == signalValue * changePercentageInv + (IF boostingSignal THEN step ELSE -step)
      ceil == CeilDiv(moved, changePercentageInv) IN
  IF ceil > MaxSignal THEN MaxSignal ELSE IF ceil < MinSignal THEN MinSignal ELSE ceil

\* updateSignalValue computes the value said for every value in the range
EngineAsClaimed ==
  /\ \A signalValue \in MinSignal..MaxSignal, boostingSignal \in BOOLEAN :
       NewSignalValue(signalValue, boostingSignal) = ClaimedSignal(signalValue, boostingSignal)
  /\ NewSignalValue(signalDefault, TRUE) = signalDefault + signalMaxChange

(* C13: for every signal value in [50, 150] and both directions
   updateSignalValue is about to write, and writes, the value of the claimed
   formula: the rounded-up and clamped value after the step, which is
   signalMaxChange towards the default and proportional otherwise; a boost at
   100 gives 110. *)
C13_EngineValue ==
  /\ EngineAsClaimed
  /\ \A r \in ReqIds :
       reqs[r].pc = "updateSignalValue"
         => reqs[r].ceilSignalValue = ClaimedSignal(reqs[r].signalValue, reqs[r].boostingSignal)

\* a boost of a station at the default has been written and notified
C13_Witness ==
  /\ answer.n > 0
  /\ answer.result = [data |-> [success |-> TRUE]]
  /\ stations[1] = signalDefault + signalMaxChange
  /\ posted = SetBoost(1, signalDefault + signalMaxChange)
  /\ \E r \in ReqIds :
       /\ reqs[r].pc = "done"
       /\ reqs[r].signalValue = signalDefault
       /\ reqs[r].ceilSignalValue = signalDefault + signalMaxChange

(* C14 (as claimed): the reset of the stations goes on for ever, whatever the
   stations' values: as long as no call of the store has failed, a
   resetStations call is running, one of its writes is in flight or a timer
   for the next call is set. *)
C14_ResetScheduled ==
  resetError = NoAnswer => (resets > 0 \/ decayWrites # EmptyBag \/ timers > 0)

\* the step is the callback of one write of resetStations
WriteAnswered(write) ==
  /\ BagIn(write, decayWrites)
  /\ decayWrites' = decayWrites (-) SetToBag({write})

\* a station written with a value
Written(stationId, signalValue) == [stations EXCEPT ![stationId] = signalValue]

\* the value one unit nearer to the default
OneNearer(signalValue) ==
  IF signalValue > signalDefault THEN signalValue - 1 ELSE signalValue + 1

\* resetStations moves every value of the range but the default by one unit
\* towards the default
DecayAsClaimed ==
  \A signalValue \in (MinSignal..MaxSignal) \ {signalDefault} :
    /\ DecayValue(signalValue) = OneNearer(signalValue)
    /\ Abs(DecayValue(signalValue) - signalDefault) = Abs(signalValue - signalDefault) - 1

(* C15 (as claimed): a station whose signal value is not the default gets back
   to the default unless updateSignalValue is at work again: no round end and
   no request is needed for resetStations to run. *)
C15_StationsHeal ==
  \A id \in StationIds :
    [](stations[id] # signalDefault
         => <>(stations[id] = signalDefault \/ \E r \in ReqIds : reqs[r].pc # "idle"))

(* C16: the callback of getAllStations issues, for exactly the stations read
   with a value other than the default, one write of the value one unit nearer
   to the default (never past it), and nothing for a station at the default;
   the callback of a write stores that value for that station alone and sends
   the telemetry request for it, and nothing else of resetStations writes a
   station or sends telemetry. *)
C16_OneUnitTowardsDefault ==
  [][/\ DecayAsClaimed
     /\ resets' = resets - 1
          => /\ \/ decayWrites' = decayWrites
                \/ decayWrites' = decayWrites (+) SetToBag(
                     {[stationId |-> id, signalValue |-> OneNearer(stations[id])] :
                        id \in {i \in StationIds : stations[i] # signalDefault}})
             /\ stations' = stations
             /\ posted' = posted
     /\ \A write \in BagToSet(decayWrites) :
          WriteAnswered(write)
            => \/ /\ stations' = Written(write.stationId, write.signalValue)
                  /\ posted' = SetBoost(write.stationId, write.signalValue)
               \/ /\ stations' = stations
                  /\ posted' = posted
     /\ (stations' # stations \/ posted' # posted)
          => \E write \in BagToSet(decayWrites) : WriteAnswered(write)]_vars

\* a resetStations call that read one station at the default and one not has
\* written the one and set its timer
C16_Witness ==
  /\ stations[2] = signalDefault
  /\ stations[1] \notin InitSignals
  /\ posted = SetBoost(1, stations[1])
  /\ decayWrites = EmptyBag
  /\ timers = 1

(* C17 (as claimed): there is one reset process: at any time at most one
   resetStations call is running or waiting on a timer, however many stations
   are off the default. *)
C17_SingleResetProcess ==
  resets + timers <= 1

(* C18: updateSignalValue and resetStations write a station without looking at
   what it holds now: a write of resetStations that succeeds stores the value
   made from the value resetStations read, and a write of updateSignalValue
   that succeeds stores the value made from the value updateSignalValue read.
   The state in which a value written by updateSignalValue is lost to the
   write of a resetStations call that read before it is reachable. *)
C18_UncoordinatedWriters ==
  [][/\ \A write \in BagToSet(decayWrites) :
          (WriteAnswered(write) /\ timers' = timers + 1)
            => stations' = Written(write.stationId, write.signalValue)
     /\ \A r \in ReqIds :
          ( /\ At(r, "updateSignalValue", {"updateSignalValue"})
            /\ Stepped(r)
            /\ ~IsError(answer'.result) )
          => stations' = Written(reqs[r].stationId,
                                 NewSignalValue(reqs[r].signalValue, reqs[r].boostingSignal))]_vars

\* the only updateSignalValue of the run read a value and wrote one
\* signalMaxChange away from it; the station now holds the value resetStations
\* made from the same value read, and the last telemetry request is the one of
\* resetStations: the change of updateSignalValue is lost
C18_Witness ==
  /\ nStarted = 1
  /\ decayWrites = EmptyBag
  /\ \E r \in ReqIds :
       /\ reqs[r].pc = "done"
       /\ reqs[r].op = "updateSignalValue"
       /\ Abs(reqs[r].ceilSignalValue - reqs[r].signalValue) = signalMaxChange
       /\ stations[reqs[r].stationId] = DecayValue(reqs[r].signalValue)
       /\ posted = SetBoost(reqs[r].stationId, DecayValue(reqs[r].signalValue))

(* C19: once updateSignalValue has written the new value it answers success;
   the callback of the telemetry request, whenever and whether it comes,
   writes no station and answers no error, and an error is answered only by
   the failed read or the failed write, which leave the stations as they are.
   resetStations hands an error to its callback only for a failed read or a
   failed write, never after the write has succeeded. *)
C19_TelemetryForgotten ==
  [][/\ \A r \in ReqIds :
          /\ ( /\ At(r, "updateSignalValue", {"updateSignalValue"})
               /\ Stepped(r) )
             => \/ /\ answer' = Answered(reqs[r], Database)
                   /\ stations' = stations
                \/ /\ answer' = Answered(reqs[r], [data |-> [success |-> TRUE]])
                   /\ stations' = Written(reqs[r].stationId, reqs[r].ceilSignalValue)
          /\ ( /\ At(r, "updateSignalValue", {"done"})
               /\ Acted(r) )
             => /\ stations' = stations
                /\ ~IsError(answer'.result)
          /\ ( /\ Acted(r)
               /\ answer' # answer
               /\ IsError(answer'.result) )
             => /\ At(r, "updateSignalValue", {"getStation", "updateSignalValue"})
                /\ stations' = stations
     /\ \A write \in BagToSet(decayWrites) :
          WriteAnswered(write)
            => \/ /\ stations' = Written(write.stationId, write.signalValue)
                  /\ timers' = timers + 1
                  /\ resetError' = resetError
               \/ /\ stations' = stations
                  /\ timers' = timers
                  /\ resetError' = Database
     /\ resetError' # resetError => stations' = stations /\ posted' = posted]_vars

\* updateSignalValue has answered success, its telemetry request was sent and
\* no response to it is pending; the value written is stored
C19_Witness ==
  /\ answer.n = 1
  /\ answer.op = "updateSignalValue"
  /\ answer.result = [data |-> [success |-> TRUE]]
  /\ \A r \in ReqIds : reqs[r].pc = "idle"
  /\ posted = SetBoost(1, stations[1])
  /\ stations[1] \notin InitSignals
  /\ resets = 0 /\ timers = 0 /\ decayWrites = EmptyBag
  /\ resetError = NoAnswer

(* C20: a telemetry request is sent only in the step that has written its
   value to its station, by updateSignalValue and by resetStations alike: it
   carries the station and the value just stored; the callback of a failed
   write sends nothing. *)
C20_TelemetryAfterWrite ==
  [][/\ posted' # posted
          => /\ stations'[posted'.station] = posted'.boost
             /\ \/ \E r \in ReqIds :
                      /\ reqs[r].pc = "updateSignalValue"
                      /\ Stepped(r)
                      /\ stations' = Written(reqs[r].stationId, reqs[r].ceilSignalValue)
                      /\ posted' = SetBoost(reqs[r].stationId, reqs[r].ceilSignalValue)
                \/ \E write \in BagToSet(decayWrites) :
                      /\ WriteAnswered(write)
                      /\ stations' = Written(write.stationId, write.signalValue)
                      /\ posted' = SetBoost(write.stationId, write.signalValue)
     /\ \A r \in ReqIds :
          ( /\ reqs[r].pc = "updateSignalValue"
            /\ Stepped(r) )
          => \/ IsError(answer'.result) /\ posted' = posted /\ stations' = stations
             \/ posted' = SetBoost(reqs[r].stationId, reqs[r].ceilSignalValue)
     /\ \A write \in BagToSet(decayWrites) :
          (WriteAnswered(write) /\ timers' = timers)
            => posted' = posted /\ stations' = stations]_vars

\* a write of updateSignalValue has failed and sent nothing: the last
\* telemetry request is the one of the write of resetStations before it, and
\* it carries the value stored
C20_Witness ==
  /\ answer.n = 1
  /\ answer.op = "updateSignalValue"
  /\ answer.result = Database
  /\ posted # NoPost
  /\ stations[posted.station] = posted.boost
  /\ timers + resets > 0

(* C1: every station's signal value stays in [50, 150] under updateSignalValue,
   resetStations from the timer and from round ends, in every interleaving;
   every value updateSignalValue is about to write is in [50, 150], and
   setNewValue answers any read value, also one out of range, with a value in
   [50, 150]. *)
C1_SignalInRange ==
  /\ \A id \in StationIds : InRange(stations[id])
  /\ \A r \in ReqIds : reqs[r].pc = "updateSignalValue" => InRange(reqs[r].ceilSignalValue)
  /\ \A write \in BagToSet(decayWrites) : InRange(write.signalValue)
  /\ WrittenInRange

\* updateSignalValue has written a station that resetStations has written too
C1_Witness ==
  /\ answer.n = 1
  /\ answer.result = [data |-> [success |-> TRUE]]
  /\ timers > 0
  /\ stations[1] \notin InitSignals

(* C2: a manipulateStation with the correct password that loads a lantern hack
   with triesLeft <= 0 takes the path of the failed guess: it goes on to
   lowerHackTries, and a request on that path never calls updateSignalValue,
   never writes a station and never answers success: true. *)
C2_NoSuccessWithoutTries ==
  [][\A r \in ReqIds :
       /\ ( /\ At(r, "manipulateStation", {"getLanternHack"})
            /\ Stepped(r)
            /\ HacksOf(reqs[r].token) # {}
            /\ HackOf(reqs[r].token).triesLeft <= 0
            /\ CorrectUser(HackOf(reqs[r].token)).password = ToLowerCase(reqs[r].password) )
          => /\ reqs'[r].pc = "lowerHackTries" \/ EndsWith(r, Database)
             /\ stations' = stations
       /\ ( /\ At(r, "manipulateStation", {"lowerHackTries", "removeLoweredHack"})
            /\ Stepped(r) )
          => /\ reqs'[r].pc \in {"removeLoweredHack", "idle"}
             /\ stations' = stations
             /\ ~IsSuccess(answer')]_vars

\* the correct password was refused: the request lowers the tries
C2_Witness ==
  \E r \in ReqIds :
    /\ reqs[r].pc = "lowerHackTries"
    /\ reqs[r].correctUser.password = ToLowerCase(reqs[r].password)

(* C3 (as claimed): for a guess as long as the correct password, matches.amount
   of a failed guess is the number of positions at which the case-folded guess
   and the correct password agree. *)
C3_PositionalMatches ==
  [][\A r \in ReqIds :
       ( /\ At(r, "manipulateStation", {"lowerHackTries"})
         /\ Stepped(r)
         /\ reqs'[r].pc = "idle"
         /\ ~IsError(answer'.result)
         /\ Len(reqs[r].password) = Len(reqs[r].correctUser.password) )
       => answer'.result.data.matches.amount
            = PositionalMatches(reqs[r].correctUser.password, ToLowerCase(reqs[r].password))]_vars


(* C4 (as claimed): once a failed guess has used up the tries and the lantern
   hack is removed, a getLanternHack of that owner goes on to create a new
   lantern hack with the full hackingTriesAmount. *)
C4_NewHackAfterLastTry ==
  [][\A r \in ReqIds :
       ( /\ answer.n > 0
         /\ answer.op = "manipulateStation"
         /\ ~IsError(answer.result)
         /\ ~answer.result.data.success
         /\ answer.result.data.triesLeft <= 0
         /\ At(r, "getLanternHack", {"getLanternHack"})
         /\ HacksOf(reqs[r].token) = {}
         /\ Stepped(r) )
       => \/ reqs'[r].pc = "getGameUsers"
          \/ EndsWith(r, Database)]_vars

(* C5 (as claimed): a getLanternHack of an owner without a stored lantern hack
   succeeds: it goes on to create a lantern hack for the requested station, and
   ends early only with the error of a failed store. *)
C5_FirstHackCreated ==
  [][\A r \in ReqIds :
       ( /\ At(r, "getLanternHack", {"getLanternHack"})
         /\ HacksOf(reqs[r].token) = {}
         /\ Stepped(r) )
       => \/ /\ reqs'[r].pc = "getGameUsers"
             /\ reqs'[r].stationId = reqs[r].stationId
          \/ EndsWith(r, Database)]_vars

(* C6: a getLanternHack for a station other than the one of the owner's stored
   lantern hack goes on to createLanternHack; when updateLanternHack has stored
   its result the owner has exactly one lantern hack, of the requested station,
   with triesLeft = hackingTriesAmount and gameUsers made from the game users
   of that station, and the data answered is made from it.  No owner ever has
   two lantern hacks. *)
C6_DifferentStationReplaces ==
  [][/\ \A owner \in Owners : Cardinality(HacksOf(owner)) <= 1
     /\ \A r \in ReqIds :
          /\ ( /\ At(r, "getLanternHack", {"getLanternHack"})
               /\ Stepped(r)
               /\ HacksOf(reqs[r].token) # {}
               /\ HackOf(reqs[r].token).stationId # reqs[r].stationId )
             => /\ \/ /\ reqs'[r].pc = "getGameUsers"
                      /\ reqs'[r].stationId = reqs[r].stationId
                   \/ EndsWith(r, Database)
                /\ lanternHacks' = lanternHacks
          /\ ( /\ At(r, "getLanternHack", {"updateLanternHack"})
               /\ Stepped(r) )
             => \/ EndsWith(r, Database) /\ lanternHacks' = lanternHacks
                \/ \E created \in lanternHacks' :
                     /\ lanternHacks' = {h \in lanternHacks : h.owner # reqs[r].token}
                                          \cup {created}
                     /\ created.owner = reqs[r].token
                     /\ created.stationId = reqs[r].stationId
                     /\ created.triesLeft = hackingTriesAmount
                     /\ created.gameUsers \in CreatedGameUsers(GameUsersOf(reqs[r].stationId))
                     /\ reqs'[r].pc = "getAllFakePasswords"
                     /\ reqs'[r].lanternHack = created
          /\ ( /\ At(r, "getLanternHack", {"getAllFakePasswords"})
               /\ Stepped(r)
               /\ ~IsError(answer'.result) )
             => /\ answer'.result.data.stationId = reqs[r].stationId
                /\ answer'.result.data.triesLeft = reqs[r].lanternHack.triesLeft]_vars

\* a lantern hack made by createLanternHack during the run (the stored ones of
\* the initial states have the hint index 0) has replaced the owner's stored one
C6_Witness ==
  \E r \in ReqIds :
    /\ reqs[r].pc = "getAllFakePasswords"
    /\ HacksOf(reqs[r].token) = {reqs[r].lanternHack}
    /\ reqs[r].lanternHack.stationId = reqs[r].stationId
    /\ reqs[r].lanternHack.triesLeft = hackingTriesAmount
    /\ reqs[r].lanternHack.gameUsers[1].passwordHint.index > 0

(* C7: a getLanternHack for the station of the owner's stored lantern hack
   creates nothing: no step of the request changes the stored lantern hacks,
   and the data answered has the stored triesLeft, the passwords, the userName,
   passwordType and passwordHint of the stored correct user. *)
C7_SameStationReuses ==
  [][\A r \in ReqIds :
       /\ ( /\ At(r, "getLanternHack", {"getLanternHack"})
            /\ Stepped(r)
            /\ HacksOf(reqs[r].token) # {}
            /\ HackOf(reqs[r].token).stationId = reqs[r].stationId )
          => /\ \/ /\ reqs'[r].pc = "getAllFakePasswords"
                   /\ reqs'[r].lanternHack = HackOf(reqs[r].token)
                \/ EndsWith(r, Database)
             /\ lanternHacks' = lanternHacks
       /\ ( /\ At(r, "getLanternHack", {"getAllFakePasswords"})
            /\ Stepped(r) )
          => /\ lanternHacks' = lanternHacks
             /\ \/ EndsWith(r, Database)
                \/ \E hackData \in HackData(reqs[r].lanternHack) :
                     /\ EndsWith(r, [data |-> hackData])
                     /\ hackData.triesLeft = reqs[r].lanternHack.triesLeft
                     /\ hackData.userName = CorrectUser(reqs[r].lanternHack).userName]_vars

\* a lantern hack that has lost a try was answered again and is still stored
C7_Witness ==
  /\ answer.n > 0
  /\ answer.op = "getLanternHack"
  /\ ~IsError(answer.result)
  /\ answer.result.data.triesLeft < hackingTriesAmount
  /\ \E h \in lanternHacks :
       /\ h.triesLeft = answer.result.data.triesLeft
       /\ h.stationId = answer.result.data.stationId


(* C8: when updateSignalValue fails for a manipulateStation with the correct
   password (the station cannot be read or the new value cannot be written),
   the caller is answered the External error and the stored lantern hacks are
   left as they are: no removal, no lowering of triesLeft, and no station is
   written. *)
C8_FailedUpdateKeepsHack ==
  [][\A r \in ReqIds :
       ( /\ At(r, "manipulateStation", {"getStation", "updateSignalValue"})
         /\ Stepped(r) )
       => /\ lanternHacks' = lanternHacks
          /\ reqs'[r].pc \in {"updateSignalValue", "removeLanternHack"}
               \/ ( /\ EndsWith(r, External)
                    /\ stations' = stations )]_vars

\* the External error was answered and the lantern hack can still be tried
C8_Witness ==
  /\ answer.n > 0
  /\ answer.op = "manipulateStation"
  /\ answer.result = External
  /\ \E h \in lanternHacks : h.triesLeft > 0

(* C9 (as claimed): a correct guess with triesLeft > 0 whose signal update is
   written changes the signal of the station in the requested direction: the
   value written is above the value read when boosting and below it when
   cutting. *)
C9_SignalMoved ==
  [][\A r \in ReqIds :
       ( /\ At(r, "manipulateStation", {"updateSignalValue"})
         /\ Stepped(r)
         /\ reqs'[r].pc = "removeLanternHack" )
       => IF reqs[r].boostingSignal
            THEN stations'[reqs[r].stationId] > reqs[r].signalValue
            ELSE stations'[reqs[r].stationId] < reqs[r].signalValue]_vars

(* C9 (amended): a correct guess with triesLeft > 0 goes on to
   updateSignalValue; the value written to the station of the lantern hack is
   the value of setNewValue for the value read, never below the value read when
   boosting and never above it when cutting; the removal that follows removes
   the owner's lantern hack and answers success: true with the direction; a
   manipulateStation of an owner without a lantern hack is answered
   DoesNotExist, and only updateLanternHack of a getLanternHack stores one. *)
C9_SuccessfulGuess ==
  [][\A r \in ReqIds :
       /\ ( /\ At(r, "manipulateStation", {"getLanternHack"})
            /\ Stepped(r) )
          => IF HacksOf(reqs[r].token) = {}
               THEN EndsWith(r, DoesNotExist) \/ EndsWith(r, Database)
               ELSE ( /\ HackOf(reqs[r].token).triesLeft > 0
                      /\ CorrectUser(HackOf(reqs[r].token)).password
                           = ToLowerCase(reqs[r].password) )
                    => \/ /\ reqs'[r].pc = "getStation"
                          /\ reqs'[r].stationId = HackOf(reqs[r].token).stationId
                       \/ EndsWith(r, Database)
       /\ ( /\ At(r, "manipulateStation", {"updateSignalValue"})
            /\ Stepped(r)
            /\ reqs'[r].pc = "removeLanternHack" )
          => /\ stations' = [stations EXCEPT ![reqs[r].stationId] =
                               NewSignalValue(reqs[r].signalValue, reqs[r].boostingSignal)]
             /\ IF reqs[r].boostingSignal
                  THEN stations'[reqs[r].stationId] >= reqs[r].signalValue
                  ELSE stations'[reqs[r].stationId] <= reqs[r].signalValue
       /\ ( /\ At(r, "manipulateStation", {"removeLanternHack"})
            /\ Stepped(r) )
          => \/ /\ EndsWith(r, Success(reqs[r].boostingSignal))
                /\ {h \in lanternHacks' : h.owner = reqs[r].token} = {}
             \/ /\ EndsWith(r, Database)
                /\ lanternHacks' = lanternHacks
       /\ ( /\ Acted(r)
            /\ ~(lanternHacks' \subseteq lanternHacks) )
          => \/ At(r, "getLanternHack", {"updateLanternHack"})
             \/ At(r, "manipulateStation", {"lowerHackTries"})]_vars

\* after a successful hack has written a station (nothing else writes one
\* here) a manipulateStation found no lantern hack
C9_Witness ==
  /\ answer.n > 0
  /\ answer.op = "manipulateStation"
  /\ answer.result = DoesNotExist
  /\ lanternHacks = {}
  /\ \E id \in StationIds : stations[id] \notin {signalDefault, MaxSignal}

(* C10: a manipulateStation takes the path of the failed guess exactly when the
   case-folded password is not the correct one or triesLeft <= 0; on that path
   it lowers the owner's triesLeft by exactly one and changes nothing else of
   the stored lantern hacks; the steps of the path of the correct guess never
   change a stored triesLeft. *)
C10_TriesLowered ==
  [][\A r \in ReqIds :
       /\ ( /\ At(r, "manipulateStation", {"lowerHackTries"})
            /\ Stepped(r)
            /\ HacksOf(reqs[r].token) # {} )
          => \/ /\ EndsWith(r, Database)
                /\ lanternHacks' = lanternHacks
             \/ lanternHacks' =
                  {h \in lanternHacks : h.owner # reqs[r].token}
                    \cup {[HackOf(reqs[r].token) EXCEPT !.triesLeft = @ - 1]}
       /\ ( /\ At(r, "manipulateStation", {"getLanternHack"})
            /\ Stepped(r) )
          => /\ lanternHacks' = lanternHacks
             /\ HacksOf(reqs[r].token) # {}
                  => \/ EndsWith(r, Database)
                     \/ reqs'[r].pc = "lowerHackTries"
                          <=> ~( /\ HackOf(reqs[r].token).triesLeft > 0
                                 /\ CorrectUser(HackOf(reqs[r].token)).password
                                      = ToLowerCase(reqs[r].password) )
       /\ ( /\ At(r, "manipulateStation",
                  {"getStation", "updateSignalValue", "removeLanternHack", "done"})
            /\ Acted(r) )
          => lanternHacks' \subseteq lanternHacks]_vars

\* a failed guess was answered and the stored lantern hack has the lowered,
\* answered triesLeft
C10_Witness ==
  /\ answer.n > 0
  /\ answer.op = "manipulateStation"
  /\ ~IsError(answer.result)
  /\ ~answer.result.data.success
  /\ \E h \in lanternHacks :
       /\ h.triesLeft = answer.result.data.triesLeft
       /\ h.triesLeft = hackingTriesAmount - 1

----------------------------------------------------------------------------
\* indexOf of the correct game user's password in a passwords list
CorrectIndex(lanternHack, passwords) ==
  IndexOf(passwords, CorrectUser(lanternHack).password)

(* C21 (as claimed): the place of the correct password in the passwords list
   is not given away: for the lantern hack createHackData is about to answer
   with, and the fake passwords of the store, two of the lists it can return
   have the correct password at different indexes. *)
C21_PositionVaries ==
  \A r \in ReqIds :
    At(r, "getLanternHack", {"getAllFakePasswords"})
      => \E d1, d2 \in HackData(reqs[r].lanternHack) :
           CorrectIndex(reqs[r].lanternHack, d1.passwords)
             # CorrectIndex(reqs[r].lanternHack, d2.passwords)

\* the fields of the data createHackData answers with
HackDataFields ==
  {"passwords", "triesLeft", "userName", "passwordType", "passwordHint", "stationId"}

\* slice(0, 13) shows every fake password of a store with up to 13 of them
\* and 13 of a store with more, however they are shuffled
FakePasswordsCapped ==
  \A n \in 0..(FakePasswordsShown + 2) :
    Len(ShownFakePasswords([i \in 1..n |-> <<"z">>])) = (IF n < 13 THEN n ELSE 13)

(* C22: the data createHackData answers with holds the password of every game
   user of the lantern hack after at most 13 passwords that are all fake
   passwords of the store, the triesLeft and the stationId of the lantern
   hack, the userName, passwordType and passwordHint of the game user with
   isCorrect, and no other field: isCorrect is nowhere in it. *)
C22_HackData ==
  [][/\ FakePasswordsCapped
     /\ \A r \in ReqIds :
          ( /\ At(r, "getLanternHack", {"getAllFakePasswords"})
            /\ Stepped(r)
            /\ ~IsError(answer'.result) )
          => LET lanternHack == reqs[r].lanternHack
                 data == answer'.result.data
                 fakes == Len(data.passwords) - Len(lanternHack.gameUsers) IN
             /\ DOMAIN data = HackDataFields
             /\ DOMAIN data.passwordHint = {"index", "character"}
             /\ fakes >= 0
             /\ fakes <= 13
             /\ \A i \in 1..fakes :
                  \E k \in 1..Len(FakePasswords) : data.passwords[i] = FakePasswords[k]
             /\ \A i \in 1..Len(lanternHack.gameUsers) :
                  data.passwords[fakes + i] = lanternHack.gameUsers[i].password
             /\ data.triesLeft = lanternHack.triesLeft
             /\ data.stationId = lanternHack.stationId
             /\ \E i \in 1..Len(lanternHack.gameUsers) :
                  /\ lanternHack.gameUsers[i].isCorrect
                  /\ data.userName = lanternHack.gameUsers[i].userName
                  /\ data.passwordType = lanternHack.gameUsers[i].passwordType
                  /\ data.passwordHint = lanternHack.gameUsers[i].passwordHint]_vars

\* getLanternHack was answered with the data of a lantern hack of two game
\* users: two fake passwords and the two passwords of the game users
C22_Witness ==
  /\ answer.n > 0
  /\ answer.op = "getLanternHack"
  /\ ~IsError(answer.result)
  /\ Len(answer.result.data.passwords) = 4
  /\ answer.result.data.userName = "u2"
  /\ answer.result.data.triesLeft = 1

(* C23 (as claimed): a getLanternHack for a station that has no game users
   changes no stored lantern hack in any of its steps, and when its handler
   ends it has answered DoesNotExist, unless the authorization or a call of
   the store failed. *)
C23_NoGameUsers ==
  [][\A r \in ReqIds :
       ( /\ At(r, "getLanternHack", {"isUserAllowed", "getLanternHack", "getGameUsers"})
         /\ Len(GameUsersOf(reqs[r].stationId)) = 0
         /\ Stepped(r) )
       => /\ lanternHacks' = lanternHacks
          /\ Free(reqs'[r])
               => \/ EndsWith(r, DoesNotExist)
                  \/ EndsWith(r, NotAllowed)
                  \/ EndsWith(r, Database)]_vars

(* C24: when manipulateStation finds no lantern hack stored for the owner, the
   callback of getLanternHack ends the handler with the error of the store
   (DoesNotExist from a store that answers) and the step changes no stored
   lantern hack and no signal value. *)
C24_NoLanternHack ==
  [][\A r \in ReqIds :
       ( /\ At(r, "manipulateStation", {"getLanternHack"})
         /\ Stepped(r)
         /\ {h \in lanternHacks : h.owner = reqs[r].token} = {} )
       => /\ EndsWith(r, DoesNotExist) \/ EndsWith(r, Database)
          /\ lanternHacks' = lanternHacks
          /\ stations' = stations]_vars

\* the guess after a successful hack: the lantern hack is gone, the station
\* has the value of that hack and the second guess was answered DoesNotExist
C24_Witness ==
  /\ answer.n = 1
  /\ answer.op = "manipulateStation"
  /\ answer.result = DoesNotExist
  /\ lanternHacks = {}
  /\ nStarted = 2
  /\ stations[1] = MaxSignal - signalMaxChange

(* C25 (as claimed): every answer of manipulateStation with success false
   holds a matches count, after the guess that leaves tries and after the one
   that takes the last try. *)
C25_MatchesAnswered ==
  ( /\ answer.n > 0
    /\ answer.op = "manipulateStation"
    /\ ~IsError(answer.result)
    /\ ~answer.result.data.success )
  => /\ "matches" \in DOMAIN answer.result.data
     /\ "amount" \in DOMAIN answer.result.data.matches

\* pools of game users createLanternHack is tried with: those of the stations
\* and one of three game users, which slice(0, 2) cuts
CheckedPools ==
  {GameUsersOf(stationId) : stationId \in StationIds}
    \cup {GameUsersOf(1) \o << [userName |-> "u4", passwords |-> << <<"c">>, <<"b", "c">> >>] >>}

\* a list of min(2, n) game users with distinct user names, all of the pool
TwoDistinctOf(gameUsers, pool) ==
  /\ Len(gameUsers) = (IF Len(pool) < 2 THEN Len(pool) ELSE 2)
  /\ \A i, j \in 1..Len(gameUsers) :
       gameUsers[i].userName = gameUsers[j].userName => i = j
  /\ \A i \in 1..Len(gameUsers) :
       \E k \in 1..Len(pool) : pool[k].userName = gameUsers[i].userName

\* whatever the shuffle, createLanternHack makes such a list of every pool
CreatedTwoDistinct ==
  \A pool \in CheckedPools :
    \A gameUsers \in CreatedGameUsers(pool) : TwoDistinctOf(gameUsers, pool)

(* C26: the game users createLanternHack makes for a station with n >= 1 game
   users are min(2, n) game users with distinct user names out of the pool of
   that station, and the lantern hack updateLanternHack stores for the owner
   holds exactly them. *)
C26_TwoDistinctGameUsers ==
  [][/\ CreatedTwoDistinct
     /\ \A r \in ReqIds :
          /\ ( /\ At(r, "getLanternHack", {"getGameUsers"})
               /\ Stepped(r)
               /\ reqs'[r].pc = "updateLanternHack" )
             => TwoDistinctOf(reqs'[r].gameUsers, GameUsersOf(reqs[r].stationId))
          /\ ( /\ At(r, "getLanternHack", {"updateLanternHack"})
               /\ Stepped(r)
               /\ ~EndsWith(r, Database) )
             => \E h \in lanternHacks' :
                  /\ h.owner = reqs[r].token
                  /\ h.stationId = reqs[r].stationId
                  /\ h.gameUsers = reqs[r].gameUsers
                  /\ TwoDistinctOf(h.gameUsers, GameUsersOf(h.stationId))]_vars

\* createLanternHack has stored a lantern hack of two game users for station 1
\* and createHackData is about to answer with it
C26_Witness ==
  \E r \in ReqIds :
    /\ At(r, "getLanternHack", {"getAllFakePasswords"})
    /\ reqs[r].lanternHack \in lanternHacks
    /\ reqs[r].lanternHack.triesLeft = hackingTriesAmount
    /\ reqs[r].stationId = 1
    /\ Len(reqs[r].lanternHack.gameUsers) = 2
    /\ reqs[r].lanternHack.gameUsers[1].userName # reqs[r].lanternHack.gameUsers[2].userName
    /\ nStarted = 2

\* the capital letter of a 0-based index
CapitalLetter(index) ==
  CASE index = 0 -> "A"
    [] index = 1 -> "B"
    [] index = 2 -> "C"

\* the password, type and hint of a game user of a lantern hack are those of
\* one password of the game user of that name in the pool
HintedOf(gameUser, pool) ==
  \E k \in 1..Len(pool) :
    /\ pool[k].userName = gameUser.userName
    /\ \E j \in 1..Len(pool[k].passwords) :
         /\ gameUser.password = pool[k].passwords[j]
         /\ gameUser.passwordType = CapitalLetter(j - 1)
    /\ 0 <= gameUser.passwordHint.index
    /\ gameUser.passwordHint.index < Len(gameUser.password)
    /\ gameUser.passwordHint.character = gameUser.password[gameUser.passwordHint.index + 1]

\* whatever the random choices, createLanternHack makes such game users
CreatedHinted ==
  \A pool \in CheckedPools :
    \A gameUsers \in CreatedGameUsers(pool) :
      \A i \in 1..Len(gameUsers) : HintedOf(gameUsers[i], pool)

(* C27: every game user createLanternHack makes has a password of the game
   user of that name, the capital letter of that password's index in the
   passwords of the game user as passwordType, a passwordHint.index within the
   password and the character of the password at that index as
   passwordHint.character; and so has every game user of the lantern hack it
   stores. *)
C27_PasswordHint ==
  [][/\ CreatedHinted
     /\ \A r \in ReqIds :
          /\ ( /\ At(r, "getLanternHack", {"getGameUsers"})
               /\ Stepped(r)
               /\ reqs'[r].pc = "updateLanternHack" )
             => \A i \in 1..Len(reqs'[r].gameUsers) :
                  HintedOf(reqs'[r].gameUsers[i], GameUsersOf(reqs[r].stationId))
          /\ ( /\ At(r, "getLanternHack", {"updateLanternHack"})
               /\ Stepped(r)
               /\ ~EndsWith(r, Database) )
             => \E h \in lanternHacks' :
                  /\ h.owner = reqs[r].token
                  /\ h.gameUsers = reqs[r].gameUsers
                  /\ \A i \in 1..Len(h.gameUsers) :
                       HintedOf(h.gameUsers[i], GameUsersOf(h.stationId))]_vars

\* a stored lantern hack made in this run has a game user with its second
\* password, type B, and the hint at the second character
C27_Witness ==
  \E r \in ReqIds :
    /\ At(r, "getLanternHack", {"getAllFakePasswords"})
    /\ reqs[r].lanternHack \in lanternHacks
    /\ \E i \in 1..Len(reqs[r].lanternHack.gameUsers) :
         /\ reqs[r].lanternHack.gameUsers[i].passwordType = "B"
         /\ reqs[r].lanternHack.gameUsers[i].password = <<"a", "a">>
         /\ reqs[r].lanternHack.gameUsers[i].passwordHint = [index |-> 1, character |-> "a"]

(* C28: no step of resetStations changes a stored lantern hack: neither the
   call from a timer or from a round that was ended, nor the callback of the
   read of the stations, nor the callback of a station's write. *)
C28_ResetKeepsHacks ==
  [][( \/ resets' # resets
       \/ decayWrites' # decayWrites
       \/ timers' # timers
       \/ stations' # stations )
     => lanternHacks' = lanternHacks]_vars

\* a lantern hack is stored while resetStations, called at the module load and
\* again by a round that was ended, has lowered station 1 twice
C28_Witness ==
  /\ lanternHacks # {}
  /\ roundCalls = <<"callback", "resetStations">>
  /\ stations[1] = MaxSignal - 2
  /\ posted = SetBoost(1, MaxSignal - 2)
  /\ timers > 0

\* slot r holds a round request whose callback of the store is about to run
\* for a round that is ended
EndsRound(r) ==
  \/ At(r, "endLanternRound", {"endLanternRound"})
  \/ /\ At(r, "updateLanternRound", {"updateLanternRound"})
     /\ reqs[r].isActive = "false"

(* C29: the callback that has stored the round of an endLanternRound, or of an
   updateLanternRound with isActive false, answers the caller and then calls
   resetStations once, in that same callback; a round request that ends with
   the error of the authorization or of the store calls no resetStations, and
   neither do the callbacks before the round is stored. *)
C29_RoundEndResets ==
  [][\A r \in ReqIds :
       /\ ( /\ EndsRound(r)
            /\ Stepped(r)
            /\ ~EndsWith(r, Database) )
          => /\ EndsWith(r, RoundData)
             /\ roundCalls' = <<"callback", "resetStations">>
             /\ resets' = resets + 1
       /\ ( /\ reqs[r].pc \in {"isUserAllowedRound", "getLanternRound",
                               "endLanternRound", "updateLanternRound"}
            /\ Stepped(r)
            /\ \/ answer' # answer /\ IsError(answer'.result)
               \/ ~Free(reqs'[r]) )
          => /\ resets' = resets
             /\ roundCalls' = roundCalls]_vars

\* an updateLanternRound with isActive false was answered with the stored
\* round, resetStations was called and has not yet read the stations
C29_Witness ==
  /\ answer.n = 1
  /\ answer.op = "updateLanternRound"
  /\ answer.result = RoundData
  /\ roundCalls = <<"callback", "resetStations">>
  /\ resets = 1
  /\ nResets = 2

\* the step changes neither store
NoStoreChanged == lanternHacks' = lanternHacks /\ stations' = stations

\* callbacks of the calls of the stores
StoreCallbacks ==
  {"getLanternHack", "getGameUsers", "updateLanternHack", "getAllFakePasswords",
   "lowerHackTries", "removeLoweredHack", "getStation", "updateSignalValue",
   "removeLanternHack"}

(* C30: a manipulateStation or getLanternHack with invalid data is answered
   InvalidData in the step that starts it and its handler ends there; one of a
   user who is not allowed is answered NotAllowed by the callback of
   isUserAllowed and its handler ends there.  Neither step changes a lantern
   hack or a signal value, and a request waits for a callback of a store only
   after the callback of isUserAllowed has let it pass. *)
C30_AbortBeforeStore ==
  [][/\ (answer' # answer /\ answer'.result = InvalidData)
          => /\ NoStoreChanged
             /\ nStarted' = nStarted + 1
             /\ \A r \in ReqIds : Free(reqs[r]) => Free(reqs'[r])
     /\ \A r \in ReqIds :
          /\ ( /\ nStarted' # nStarted
               /\ FirstFree(r)
               /\ Free(reqs'[r]) )
             => /\ answer'.result = InvalidData
                /\ NoStoreChanged
          /\ ( /\ reqs[r].pc = "isUserAllowed"
               /\ reqs[r].token = BadToken
               /\ Stepped(r) )
             => /\ EndsWith(r, NotAllowed)
                /\ NoStoreChanged
          /\ ( /\ Stepped(r)
               /\ reqs'[r].pc \in StoreCallbacks
               /\ reqs[r].pc \notin StoreCallbacks )
             => /\ reqs[r].pc = "isUserAllowed"
                /\ reqs[r].token # BadToken]_vars

\* a getLanternHack with invalid data and one of a user who is not allowed
\* have both ended, and the stored lantern hack has all its tries
C30_Witness ==
  /\ answer.n = 1
  /\ answer.op = "getLanternHack"
  /\ answer.result = NotAllowed
  /\ nStarted = 2
  /\ \A r \in ReqIds : reqs[r] = Idle
  /\ \E h \in lanternHacks : h.triesLeft = hackingTriesAmount

----------------------------------------------------------------------------
\* the requests of an owner that have written the new signal value of the
\* station of the lantern hack they found and are about to remove it
Resolving(owner) ==
  {r \in ReqIds : At(r, "manipulateStation", {"removeLanternHack"}) /\ reqs[r].token = owner}

(* C31 (as claimed): a stored lantern hack is resolved once: of the
   manipulateStation requests of an owner, whatever their interleaving, at most
   one has had the signal value of the station written and waits for the
   lantern hack to be removed. *)
C31_ResolvedOnce ==
  \A owner \in Owners : Cardinality(Resolving(owner)) <= 1

(* C32 (as claimed): the callback of a manipulateStation request is called
   once: no call of it is the second one of its request. *)
C32_AnsweredOnce ==
  (answer.n > 0 /\ answer.op = "manipulateStation") => answer.n = 1

(* C33 (as claimed): a removeLanternHack of the path of the correct guess,
   the one called after the write of the station or the one called again when
   the telemetry server has answered, takes from the store only the lantern
   hack its request found: one of the station the request has written, never a
   lantern hack stored for another station since. *)
C33_RemovesOwnHack ==
  [][\A r \in ReqIds :
       ( /\ reqs[r].pc \in {"removeLanternHack", "done"}
         /\ reqs[r].op = "manipulateStation"
         /\ Acted(r) )
       => \A h \in lanternHacks \ lanternHacks' : h.stationId = reqs[r].stationId]_vars

----------------------------------------------------------------------------
(* C34 (as claimed): every write of updateSignalValue moves the station: a
   cut of a station read above 50 writes a value below the value read, a boost
   of a station read below 150 a value above it. *)
C34_EngineMoves ==
  [][\A r \in ReqIds :
       ( /\ reqs[r].pc = "updateSignalValue"
         /\ Stepped(r)
         /\ stations' = Written(reqs[r].stationId, reqs[r].ceilSignalValue) )
       => IF reqs[r].boostingSignal
            THEN reqs[r].signalValue < MaxSignal
                   => stations'[reqs[r].stationId] > reqs[r].signalValue
            ELSE reqs[r].signalValue > MinSignal
                   => stations'[reqs[r].stationId] < reqs[r].signalValue]_vars

\* a boost of a value below 150 writes a higher value that is no more than
\* 150, a cut of a value of 55 or more a lower one that is no less than 54,
\* and a cut of a value of 50 to 54 the value itself: boosts repeated end at
\* 150 and nowhere else, cuts repeated at 54 or at the value they began with
\* if that is lower
EngineProgress ==
  \A signalValue \in MinSignal..MaxSignal :
    /\ signalValue < MaxSignal
         => /\ NewSignalValue(signalValue, TRUE) > signalValue
            /\ NewSignalValue(signalValue, TRUE) <= MaxSignal
    /\ signalValue >= 55
         => /\ NewSignalValue(signalValue, FALSE) < signalValue
            /\ NewSignalValue(signalValue, FALSE) >= 54
    /\ signalValue <= 54 => NewSignalValue(signalValue, FALSE) = signalValue

(* C34 (amended): a boost of a station read below 150 writes a value above the
   value read, a cut of a station read at 55 or more a value below it; a cut
   of a station read at 50 to 54 writes the value read, the rounding up taking
   back a step of less than one.  Repeated boosts reach 150, repeated cuts end
   at 54. *)
C34_EngineProgress ==
  [][/\ EngineProgress
     /\ \A r \in ReqIds :
          ( /\ reqs[r].pc = "updateSignalValue"
            /\ Stepped(r)
            /\ stations' = Written(reqs[r].stationId, reqs[r].ceilSignalValue) )
          => LET read == reqs[r].signalValue
                 written == stations'[reqs[r].stationId] IN
             IF reqs[r].boostingSignal
               THEN read < 150 => written > read
               ELSE /\ read >= 55 => written < read
                    /\ read <= 54 => written = read]_vars

\* updateSignalValue has read a station at 54, written 54 and answered
\* success: the cut has not moved the station
C34_Witness ==
  /\ answer.n = 1
  /\ answer.op = "updateSignalValue"
  /\ ~IsError(answer.result)
  /\ stations[1] = 54
  /\ posted = SetBoost(1, 54)
  /\ \E r \in ReqIds :
       /\ reqs[r].pc = "done"
       /\ reqs[r].signalValue = 54
       /\ reqs[r].ceilSignalValue = 54

----------------------------------------------------------------------------
\* for every value of the range a boost gives a value that is no lower and a
\* cut a value that is no higher
EngineDirection ==
  \A signalValue \in MinSignal..MaxSignal :
    /\ NewSignalValue(signalValue, TRUE) >= signalValue
    /\ NewSignalValue(signalValue, FALSE) <= signalValue

(* C35: updateSignalValue never writes against the requested direction: the
   value a boost writes is no lower than the value it read and the value a cut
   writes is no higher, for every value read from 50 to 150. *)
C35_NeverAgainstDirection ==
  [][/\ EngineDirection
     /\ \A r \in ReqIds :
          ( /\ reqs[r].pc = "updateSignalValue"
            /\ Stepped(r)
            /\ stations' = Written(reqs[r].stationId, reqs[r].ceilSignalValue) )
          => IF reqs[r].boostingSignal
               THEN stations'[reqs[r].stationId] >= reqs[r].signalValue
               ELSE stations'[reqs[r].stationId] <= reqs[r].signalValue]_vars

\* a cut of station 1 read at 100 has written the lower value 90 and
\* answered success
C35_Witness ==
  /\ answer.n = 1
  /\ answer.op = "updateSignalValue"
  /\ ~IsError(answer.result)
  /\ stations[1] = 90
  /\ \E r \in ReqIds :
       /\ reqs[r].pc = "done"
       /\ reqs[r].op = "updateSignalValue"
       /\ reqs[r].signalValue = 100
       /\ reqs[r].ceilSignalValue = 90

----------------------------------------------------------------------------
(* C36 (as claimed): manipulateStation is all or nothing towards the station:
   when it answers an error, the station of the lantern hack has the signal
   value it had before the call.  With one request started since the initial
   state, that value is the initial one. *)
C36_ErrorLeavesStation ==
  ( /\ nStarted = 1
    /\ answer.n > 0
    /\ answer.op = "manipulateStation"
    /\ IsError(answer.result) )
  => /\ stations[1] = MaxSignal
     /\ stations[2] = signalDefault

----------------------------------------------------------------------------
(* C37: of the steps of manipulateStation and getLanternHack only the write of
   a correct guess changes a station: every step of getLanternHack and every
   step of a guess that is not correct or has no tries left leaves the signal
   values as they are, a request gets to the write only by a correct guess
   with tries left, for the station of the lantern hack it found, and the
   write changes no other station. *)
C37_OnlyCorrectGuessWrites ==
  [][\A r \in ReqIds :
       Acted(r)
       => /\ stations' # stations
               => /\ At(r, "manipulateStation", {"updateSignalValue"})
                  /\ \A id \in StationIds \ {reqs[r].stationId} :
                       stations'[id] = stations[id]
          /\ ( /\ At(r, "manipulateStation", {"getLanternHack"})
               /\ reqs'[r].pc = "getStation" )
               => /\ HacksOf(reqs[r].token) # {}
                  /\ IsCorrectGuess(HackOf(reqs[r].token), reqs[r].password)
                  /\ reqs'[r].stationId = HackOf(reqs[r].token).stationId]_vars

\* a correct guess for a lantern hack of station 2 has been answered with
\* success: station 2 is changed and station 1 is not
C37_Witness ==
  /\ answer.n > 0
  /\ answer.op = "manipulateStation"
  /\ IsSuccess(answer)
  /\ stations[2] # signalDefault
  /\ stations[1] = MaxSignal

----------------------------------------------------------------------------
\* the lantern hacks of an owner are the same after the step
KeptHacksOf(owner) ==
  {h \in lanternHacks' : h.owner = owner} = {h \in lanternHacks : h.owner = owner}

(* C38: the lantern hacks of different owners are apart: no step of a
   getLanternHack or manipulateStation request of one user stores, changes or
   removes the lantern hack of another owner, however the requests of the two
   users are interleaved. *)
C38_OwnersApart ==
  [][\A r \in ReqIds :
       Acted(r)
       => \A owner \in TwoOwners :
            ("token" \notin DOMAIN reqs[r] \/ reqs[r].token # owner)
            => KeptHacksOf(owner)]_vars

\* requests of o1 have removed its lantern hack by a correct guess and those
\* of o2 have stored a new one for another station, while a request of o1 is
\* running again
C38_Witness ==
  /\ HacksOf("o1") = {}
  /\ \E h \in HacksOf("o2") : h \notin UNION InitOwnersHacks
  /\ IsSuccess(answer)
  /\ answer.op = "manipulateStation"

----------------------------------------------------------------------------
(* C39 (as claimed): where nothing but resetStations writes the stations,
   called at the module load, by its timers and by the round handlers, no step
   takes a station farther from the default signal value than it was, and a
   station at the default stays there. *)
C39_DecayOnlyCloser ==
  [][\A id \in StationIds :
       Abs(stations'[id] - signalDefault) <= Abs(stations[id] - signalDefault)]_vars

====
